---- MODULE Spec2Model ----
(***************************************************************************)
(* Session / authentication lifecycle and the authenticated request        *)
(* gateway of the Iberdrola charger monitor (iberdrola_auth.py,            *)
(* iberdrola_api.py, bot_monitor.py).                                      *)
(*                                                                         *)
(* Python's None is the empty tuple, a present value x the tuple <<x>>.    *)
(* Tokens are strings.  Time is in seconds from the start of the run.      *)
(* The bot runs every coroutine on one asyncio event loop:                  *)
(* a synchronous section (no await inside) of one caller is never          *)
(* interleaved with another caller's; `running` names the caller that      *)
(* holds the loop.  The wall clock (`now`) advances at any moment.         *)
(***************************************************************************)
EXTENDS Integers, Sequences, FiniteSets, TLC

\* ------------------------------------------------------------- bounds
\* The clock runs from 0 to MaxNow seconds.
MaxNow == 1

\* At most MaxCycles renewal cycles start in one run.
MaxCycles == 3
\* Expiry instants tried by the validity check lie up to ExpirySpread
\* seconds on either side of the 30-second boundary.
ExpirySpread == 12

\* The renewal clock, in seconds, stops here: two renewal intervals and
\* the delays around them fit.
MaxClock == 1700

\* Seconds the renewal clock may be advanced one at a time.
MaxDelays == 2

\* Mails the inbox receives in one run.
MaxMails == 2

\* ---------------------------------------------------- program constants
\* is_token_valid: "Give 30 seconds buffer".
SafetyBuffer == 30
\* data.get("expires_in", 360)
DefaultExpiresIn == 360
\* AUTH_ERROR_CODES = (401, 403, 500)
AUTH_ERROR_CODES == {401, 403, 500}

None == <<>>
Some(x) == <<x>>

\* ------------------------------------------------------------- texts
\* A Python str is the sequence of its characters.
DigitChars == <<"0", "1", "2", "3", "4", "5", "6", "7", "8", "9">>
IsDigit(ch) == \E d \in 1..10 : DigitChars[d] = ch
DigitOf(ch) == (CHOOSE d \in 1..10 : DigitChars[d] = ch) - 1

\* str(valor) of a natural number (set_config, line 308).
RECURSIVE str(_)
str(n) ==
    IF n < 10 THEN <<DigitChars[n + 1]>>
    ELSE Append(str(n \div 10), DigitChars[(n % 10) + 1])

\* int(...) of a text of decimal digits (lines 761 and 1287).
RECURSIVE int(_)
int(s) ==
    IF Len(s) = 1 THEN DigitOf(s[1])
    ELSE 10 * int(SubSeq(s, 1, Len(s) - 1)) + DigitOf(s[Len(s)])

\* s.strip(): the blanks at both ends are dropped.
RECURSIVE Strip(_)
Strip(s) ==
    IF s = <<>> THEN s
    ELSE IF Head(s) = " " THEN Strip(Tail(s))
    ELSE IF s[Len(s)] = " " THEN Strip(SubSeq(s, 1, Len(s) - 1))
    ELSE s

\* The index after the digits that start at index i of s.
RECURSIVE SkipDigits(_, _)
SkipDigits(s, i) ==
    IF i <= Len(s) /\ IsDigit(s[i]) THEN SkipDigits(s, i + 1) ELSE i

\* re.match(r'^\d+\.\d+\.\d+$', s), read from left to right (line 733;
\* s is stripped, so it has no final newline for $ to step over).
MatchesVersion(s) ==
    LET a == SkipDigits(s, 1)
        b == SkipDigits(s, a + 1)
        c == SkipDigits(s, b + 1)
    IN /\ a > 1 /\ a <= Len(s) /\ s[a] = "."
       /\ b > a + 1 /\ b <= Len(s) /\ s[b] = "."
       /\ c > b + 1 /\ c = Len(s) + 1

\* CHECK_INTERVAL and IBERDROLA_APP_VERSION are not set in the
\* environment: the defaults of lines 26 and 61.
DefaultInterval == int(<<"6", "0">>)
DefaultVersion == <<"4", ".", "3", "6", ".", "7">>
\* The version in the headers IberdrolaAPI.__init__ builds (line 38).
BuiltInVersion == <<"4", ".", "3", "5", ".", "0">>
\* f'ANDROID-{version}' (bot_monitor.py line 716).
VersionHeader(version) ==
    <<"A", "N", "D", "R", "O", "I", "D", "-">> \o version
\* The physical sockets watched and the status codes they report.
Sockets == {1, 2}
Statuses == {"AVAILABLE", "OCCUPIED"}
\* The scheduler task (run_schedule_loop) and the handler of the
\* "Forzar Chequeo" button.
Checkers == {"scan", "manual"}
\* The callback_data suffixes of the interval keyboard (lines 668-672).
KeyboardIntervals ==
    {<<"3", "0">>, <<"6", "0">>, <<"1", "2", "0">>, <<"3", "0", "0">>,
     <<"6", "0", "0">>}
\* Texts a user sends when asked for the version.
VersionInputs ==
    {<<"4", ".", "3", "6", ".", "9">>, <<" ", "5", ".", "0", ".", "1", " ">>,
     <<"4", ".", "3", "6">>, <<"4", ".", ".", "9">>,
     <<"v", "4", ".", "3", ".", "9">>, <<"4", ".", "3", ".", "6", ".", "9">>,
     <<"4", ".", "3", ".">>, <<".", "3", ".", "9">>, <<>>}

\* Token strings: the ones a previous run stored and the ones the
\* endpoint issues now.
StoredToken == "tokA"
IssuedToken == "tokB"
StoredIdToken == "idA"
IssuedIdToken == "idB"

\* The two tasks of the bot that use the session: the periodic poller
\* (run_schedule_loop -> chequear_cargadores) and a command handler.
BotCallers == {"poller", "handler"}
\* The command-line scripts (reservar_cargador.py, test_*.py) are one thread.
Callers == BotCallers \cup {"script"}

\* A JSON field of a token-endpoint reply: absent, null, or a value.
Absent == [has |-> FALSE, val |-> None]
Null == [has |-> TRUE, val |-> None]
Val(x) == [has |-> TRUE, val |-> Some(x)]
\* An expires_in the endpoint sends: one second past the buffer, so that
\* the token is valid when issued and not one second later.
ExpiresInValues == {SafetyBuffer + 1}
ExpiresField == {Absent, Null} \cup {Val(e) : e \in ExpiresInValues}

NoReply == [kind |-> "none", access |-> Absent, refresh |-> Absent,
            id |-> Absent, expires |-> Absent, save_ok |-> TRUE]
\* What one POST to /oauth/token can bring back: a connection error, an
\* error status (raise_for_status), a body that is not JSON, a JSON
\* object without access_token, or one with it; save_ok is whether
\* writing the tokens file then works.
TokenReplies ==
    {[NoReply EXCEPT !.kind = k] :
        k \in {"neterr", "http_error", "bad_json", "json"}}
    \cup [kind : {"json"}, access : {Val(IssuedToken)},
          refresh : {Absent, Null, Val(IssuedToken)},
          id : {Absent, Val(IssuedIdToken)},
          expires : ExpiresField, save_ok : BOOLEAN]

\* Status of one API response; None is a connection error or timeout.
ApiReplies == {None} \cup {Some(s) : s \in {200, 404} \cup AUTH_ERROR_CODES}

VARIABLES
    tokens_file,        \* IberdrolaAuth.tokens_file is set (scripts) or None (bot)
    on_auth_failure,    \* IberdrolaAPI.on_auth_failure is registered
    api_auth,           \* IberdrolaAPI.auth_manager is set
    access_token, refresh_token, id_token, token_expiry,
    file_data,          \* content of the tokens file, None when there is none
    auth_tokens,        \* the auth_tokens row of the bot's database, None when absent
    now,
    running,            \* caller holding the event loop, "none" when it is free
    pc,                 \* position of each caller
    http_sent,          \* the current Gateway call: requests sent,
    refresh_calls,      \*   refresh_access_token invocations,
    hdr_refreshes,      \*   those made by get_access_token in _get_headers,
    got_token,          \*   what the last get_access_token returned,
    cb_calls,           \*   on_auth_failure invocations,
    status1, status2,   \*   the replies to the first and the retried request,
    recovery,           \*   how the recovery refresh went,
    gw_result,          \*   "json" | "fail", "none" while running
    start_refreshable,  \*   refresh_token present when the call began
    refresh_ret,        \* return value of the last refresh_access_token
    refreshers,         \* callers that sent a refresh request since the
                        \*   access token was last valid
    last_write,         \* what assigned the session's fields last
    code_verifier,      \* whose login attempt generated the PKCE verifier
    login_calls,        \* start_login calls of each caller's running
                        \*   ensure_authenticated call, 0 when none runs,
    mfa_submits,        \*   and its submit_mfa_code calls
    exchange_verifier,  \* whose verifier each caller's token exchange sent,
                        \*   "none" once the coroutine has taken the result
    valid_ret,          \* what is_token_valid() returned to the script
    auto_renew_active,
    auto_renew_task,    \* where the _auto_renew_loop task stands; "none"
                        \*   when self.auto_renew_task is None
    cycles,             \* renewal cycles started so far
    cancel_calls,       \* the current renewal cycle: cancel_reservation calls,
    pay_calls,          \*   process_reservation_payment calls,
    reserve_calls,      \*   reserve_charger calls,
    notifications,      \*   _send_notification calls,
    last_notice,        \*   the message of the last of them,
    delivered,          \*   whether its send_message worked, "none" until
                        \*     _send_notification has returned,
    cancel_ret,         \*   what cancel_reservation returned,
    payment_ret,        \*   what process_reservation_payment returned,
    payment_timed_out,  \*   its wait for the 3DS approval ran out of time,
    tx_ret,             \*   what get_transaction_in_progress told the loop,
                        \*     "unset" before the job's first cycle,
    avail_ret,          \*   what the availability re-query found,
    method_calls,       \*   get_payment_method calls and the last result,
    method_ret,
    order_calls,        \*   get_order_id calls and the last result,
    order_ret,
    reserve_ret,        \*   what reserve_charger returned
    auto_renew_cupr_id,
    auto_renew_socket_id,
    auto_renew_next_time,
    handler,            \* where the _ejecutar_reserva callback stands
    requested,          \* the <<cupr_id, socket_id>> it is running with
    reserva_ret,        \* how far its last run got, "running" meanwhile
    timer,              \* when the loop task's pending asyncio.sleep ends
    delays,             \* seconds the clock was advanced one at a time
    remote,             \* the user's reservation at Iberdrola
    live_tasks,         \* _auto_renew_loop tasks neither finished nor cancelled
    user_stopped,       \* the user stopped or cancelled since the job began
    last_control,       \* the user's last control that changed the job: "stop",
                        \*   "cancel", "reserve", or "replace" for a
                        \*   reservation that cancelled a task inside a cycle
    cancel_report,      \* how the running _cancelar_reserva ends: the message
                        \*   it sends, or "fault" for an exception; "none"
                        \*   when the callback is not running
    configuracion,      \* the rows 'check_interval' and 'app_version' of
                        \*   the configuracion table, None when absent
    check_interval,     \* self.check_interval, seconds
    app_version,        \* self.app_version
    waiting_for_version,
    phase,              \* "constructed" after __init__, "running" once
                        \*   run() has loaded the saved interval
    version_input,      \* the text _set_new_version was last given and
    version_reply,      \*   its answer: "invalid" | "updated"
    inbox,              \* the mails from the Iberdrola sender, oldest first
    reader,             \* where get_latest_mfa_code stands
    mail_clock,         \* the wall clock of the reader's thread, seconds
    search_start_time,  \* its search_start_time, None before the call
    mfa_found,          \* the mail whose code it returned, None for None
    scanning_paused,
    estado_conectores,  \* the status column of the estado_conectores
                        \*   table by physicalSocketId, None where no row
    checker,            \* where each chequear_cargadores caller stands
    conectores,         \* what each caller's last check fetched, None for
                        \*   a failed fetch and before the fetch
    cambios,            \* the sockets its detectar_cambios reported
    versionApp,         \* base_headers['versionApp'] of self.api
    pkce_verifier,      \* the text of self.code_verifier, None before
                        \*   _generate_pkce
    code_challenge      \* self.code_challenge

sessVars == <<access_token, refresh_token, id_token, token_expiry>>
storeVars == <<file_data, auth_tokens>>
botConfig == <<configuracion, check_interval, app_version,
               waiting_for_version, phase, version_input, version_reply>>
mailVars == <<inbox, reader, mail_clock, search_start_time, mfa_found>>
checkVars == <<scanning_paused, estado_conectores, checker, conectores,
               cambios>>
pkceVars == <<pkce_verifier, code_challenge>>
cfgVars == <<tokens_file, on_auth_failure, api_auth, botConfig, mailVars,
             checkVars, versionApp, pkceVars>>
attemptVars == <<login_calls, mfa_submits, exchange_verifier>>

\* ensure_authenticated returns to caller c: its counts end with it.
EnsureReturns(c) ==
    /\ login_calls' = [login_calls EXCEPT ![c] = 0]
    /\ mfa_submits' = [mfa_submits EXCEPT ![c] = 0]
callVars == <<http_sent, refresh_calls, hdr_refreshes, got_token, cb_calls,
              status1, status2,
              recovery, gw_result, start_refreshable>>
authVars == <<cfgVars, sessVars, storeVars, now, running, pc, callVars,
              refresh_ret, refreshers, last_write, code_verifier, attemptVars, valid_ret>>
cycleCore == <<cancel_calls, pay_calls, reserve_calls, notifications,
               last_notice, cancel_ret, payment_ret, payment_timed_out,
               tx_ret, avail_ret,
               method_calls, method_ret, order_calls, order_ret, reserve_ret>>
cycleVars == <<cycleCore, delivered>>
jobVars == <<auto_renew_cupr_id, auto_renew_socket_id, auto_renew_next_time>>
handlerVars == <<handler, requested, reserva_ret>>
renewVars == <<auto_renew_active, auto_renew_task, cycles, cycleVars, jobVars,
               handlerVars, timer, delays, remote, live_tasks, user_stopped,
               last_control, cancel_report>>
\* Everything of the session and the gateway but the clock.
authIdle == <<cfgVars, sessVars, storeVars, running, pc, callVars,
              refresh_ret, refreshers, last_write, code_verifier, attemptVars, valid_ret>>
vars == <<authVars, renewVars>>

Session == [access |-> access_token, refresh |-> refresh_token,
            id |-> id_token, expiry |-> token_expiry]

\* ------------------------------------------------------- IberdrolaAuth

\* A validity test that still accepts the token at expiry - 30 s.
TokenValidAtInclusive(access, expiry, t) ==
    IF access = None \/ expiry = None THEN FALSE
    ELSE t <= expiry[1] - SafetyBuffer

\* is_token_valid with the fields and the clock as arguments.
TokenValidAt(access, expiry, t) ==
    IF access = None \/ expiry = None THEN FALSE
    ELSE t < expiry[1] - SafetyBuffer

is_token_valid == TokenValidAt(access_token, token_expiry, now)

\* IberdrolaAPI.is_authenticated
is_authenticated ==
    api_auth /\ (is_token_valid \/ refresh_token # None)

\* A refresh that fails on every reply and forgets the access token and
\* its expiry.
RefreshApplyClearing(r, s, t, has_file) ==
    [ok |-> FALSE, sess |-> [s EXCEPT !.access = None, !.expiry = None],
     wrote |-> TRUE, saved |-> FALSE]

\* The body of refresh_access_token's try block on reply r, from session s
\* at time t: the assignments run in order and the first exception ends
\* them; whatever was assigned before stays assigned.  `wrote` tells that
\* a field was assigned, `saved` that _save_tokens wrote the file.
RefreshApply(r, s, t, has_file) ==
    IF r.kind # "json" \/ ~r.access.has
    THEN [ok |-> FALSE, sess |-> s, wrote |-> FALSE, saved |-> FALSE]
    ELSE LET s1 == [s EXCEPT !.access = r.access.val,
                             !.refresh = IF r.refresh.has THEN r.refresh.val
                                         ELSE s.refresh,
                             !.id = IF r.id.has THEN r.id.val ELSE None]
         IN IF r.expires.has /\ r.expires.val = None
            THEN [ok |-> FALSE, sess |-> s1, wrote |-> TRUE, saved |-> FALSE]
            ELSE LET secs == IF r.expires.has THEN r.expires.val[1]
                             ELSE DefaultExpiresIn
                     s2 == [s1 EXCEPT !.expiry = Some(t + secs)]
                 IN IF has_file /\ ~r.save_ok
                    THEN [ok |-> FALSE, sess |-> s2, wrote |-> TRUE, saved |-> FALSE]
                    ELSE [ok |-> TRUE, sess |-> s2, wrote |-> TRUE, saved |-> has_file]

\* The body of _exchange_code_for_tokens' try block: as the refresh, but
\* data["refresh_token"] is required and raises after access_token was set.
ExchangeApply(r, s, t, has_file) ==
    IF r.kind # "json" \/ ~r.access.has
    THEN [ok |-> FALSE, sess |-> s, wrote |-> FALSE, saved |-> FALSE]
    ELSE LET s0 == [s EXCEPT !.access = r.access.val]
         IN IF ~r.refresh.has
            THEN [ok |-> FALSE, sess |-> s0, wrote |-> TRUE, saved |-> FALSE]
            ELSE LET s1 == [s0 EXCEPT !.refresh = r.refresh.val,
                                      !.id = IF r.id.has THEN r.id.val ELSE None]
                 IN IF r.expires.has /\ r.expires.val = None
                    THEN [ok |-> FALSE, sess |-> s1, wrote |-> TRUE, saved |-> FALSE]
                    ELSE LET secs == IF r.expires.has THEN r.expires.val[1]
                                     ELSE DefaultExpiresIn
                             s2 == [s1 EXCEPT !.expiry = Some(t + secs)]
                         IN IF has_file /\ ~r.save_ok
                            THEN [ok |-> FALSE, sess |-> s2, wrote |-> TRUE,
                                  saved |-> FALSE]
                            ELSE [ok |-> TRUE, sess |-> s2, wrote |-> TRUE,
                                  saved |-> has_file]

\* ------------------------------------------------------------ helpers

SetSession(s) ==
    /\ access_token' = s.access
    /\ refresh_token' = s.refresh
    /\ id_token' = s.id
    /\ token_expiry' = s.expiry

\* Replies the token endpoint can give now (the file write can only fail
\* where there is a tokens file).
RepliesNow == {r \in TokenReplies : r.save_ok \/ tokens_file}

\* refresh_access_token up to its requests.post: the reply is awaited.
SendRefresh(c) ==
    /\ refresh_ret' = "none"
    /\ refreshers' = refreshers \cup {c}

\* The callers to remember once the session is s at time t.
RefreshersAfter(s, t) ==
    IF TokenValidAt(s.access, s.expiry, t) THEN {} ELSE refreshers

\* refresh_access_token from the reply on, _save_tokens included.
ReceiveRefresh ==
    \E r \in RepliesNow :
       LET out == RefreshApply(r, Session, now, tokens_file)
       IN /\ SetSession(out.sess)
          /\ file_data' = IF out.saved THEN Some(out.sess) ELSE file_data
          /\ refresh_ret' = IF out.ok THEN "ok" ELSE "fail"
          /\ refreshers' = RefreshersAfter(out.sess, now)
          /\ last_write' = IF out.ok THEN "refresh_ok"
                           ELSE IF out.wrote THEN "refresh_failed"
                           ELSE last_write

\* The value refresh_access_token has just returned.
RefreshOk == refresh_ret' = "ok"

\* The call returns: the caller gives the event loop back.
Return(c, result) ==
    /\ gw_result' = result
    /\ pc' = [pc EXCEPT ![c] = "idle"]
    /\ running' = "none"

\* An escalation that returns None without telling the callback.
EscalateSilently(c) == Return(c, "fail")

\* After a failed recovery: the callback if one is registered, then None.
Escalate(c) ==
    IF on_auth_failure
    THEN /\ pc' = [pc EXCEPT ![c] = "escalate"]
         /\ UNCHANGED <<gw_result, running>>
    ELSE Return(c, "fail")

\* ------------------------------------- IberdrolaAPI._authenticated_request

\* get_access_token, lines 105-110: after its refresh it returns
\* self.access_token if refresh_access_token returned True, else None.
TokenWhateverRefresh(ok, token) == token
TokenAfterRefresh(ok, token) == IF ok THEN token ELSE None

\* _get_headers(authenticated=True) -> get_access_token: a valid token is
\* used as it is; otherwise a refresh is sent when a refresh token exists;
\* otherwise the request goes out without a token.
BuildHeaders(c, calls, hdrs, ready, waiting) ==
    IF is_token_valid \/ refresh_token = None
    THEN /\ pc' = [pc EXCEPT ![c] = ready]
         /\ refresh_calls' = calls
         /\ hdr_refreshes' = hdrs
         /\ got_token' = IF is_token_valid THEN access_token ELSE None
         /\ UNCHANGED <<refresh_ret, refreshers>>
    ELSE /\ SendRefresh(c)
         /\ refresh_calls' = calls + 1
         /\ hdr_refreshes' = hdrs + 1
         /\ got_token' = None
         /\ pc' = [pc EXCEPT ![c] = waiting]

\* Lines 86-97: the call begins; without an auth_manager it returns None.
StartRequest(c) ==
    /\ pc[c] = "idle" /\ running = "none"
    /\ http_sent' = 0 /\ cb_calls' = 0
    /\ status1' = None /\ status2' = None /\ recovery' = "none"
    /\ start_refreshable' = (refresh_token # None)
    /\ IF ~api_auth
       THEN /\ gw_result' = "fail"
            /\ refresh_calls' = 0 /\ hdr_refreshes' = 0
            /\ UNCHANGED got_token
            /\ UNCHANGED <<pc, running, refresh_ret, refreshers>>
       ELSE /\ gw_result' = "none"
            /\ running' = c
            /\ BuildHeaders(c, 0, 0, "req1", "hdr1_wait")
    /\ UNCHANGED <<cfgVars, sessVars, storeVars, now, last_write,
                   code_verifier, attemptVars, valid_ret, renewVars>>

\* get_access_token's refresh returns; the headers are complete either way.
HeadersRefreshed(c) ==
    /\ pc[c] \in {"hdr1_wait", "hdr2_wait"}
    /\ ReceiveRefresh
    /\ got_token' = TokenAfterRefresh(RefreshOk, access_token')
    /\ pc' = [pc EXCEPT ![c] = IF pc[c] = "hdr1_wait" THEN "req1" ELSE "req2"]
    /\ UNCHANGED <<cfgVars, auth_tokens, now, running, http_sent,
                   refresh_calls, hdr_refreshes, cb_calls, status1, status2,
                   recovery, gw_result, start_refreshable,
                   code_verifier, attemptVars, valid_ret, renewVars>>

\* Lines 99-135: the first request and what its status leads to.
FirstRequest(c) ==
    /\ pc[c] = "req1"
    /\ http_sent' = http_sent + 1
    /\ \E a \in ApiReplies :
         /\ status1' = a
         /\ IF a # None /\ a[1] \in AUTH_ERROR_CODES
            THEN IF refresh_token # None
                 THEN /\ SendRefresh(c)
                      /\ refresh_calls' = refresh_calls + 1
                      /\ pc' = [pc EXCEPT ![c] = "recover_wait"]
                      /\ UNCHANGED <<recovery, gw_result, running>>
                 ELSE /\ recovery' = "no_token"
                      /\ Escalate(c)
                      /\ UNCHANGED <<refresh_calls, refresh_ret, refreshers>>
            ELSE /\ Return(c, IF a = Some(200) THEN "json" ELSE "fail")
                 /\ UNCHANGED <<refresh_calls, recovery, refresh_ret,
                                refreshers>>
    /\ UNCHANGED <<cfgVars, sessVars, storeVars, now, hdr_refreshes, got_token, cb_calls,
                   status2, start_refreshable, last_write, code_verifier, attemptVars,
                   valid_ret, renewVars>>

\* A recovery that gives up after a successful refresh instead of retrying.
RecoveryRefreshedNoRetry(c) ==
    /\ pc[c] = "recover_wait"
    /\ ReceiveRefresh
    /\ recovery' = IF RefreshOk THEN "ok" ELSE "failed"
    /\ Escalate(c)
    /\ UNCHANGED <<cfgVars, auth_tokens, now, http_sent, refresh_calls,
                   hdr_refreshes, got_token, cb_calls, status1, status2,
                   start_refreshable, code_verifier, attemptVars, valid_ret, renewVars>>

\* Lines 111-130: the recovery refresh returns.
RecoveryRefreshed(c) ==
    /\ pc[c] = "recover_wait"
    /\ ReceiveRefresh
    /\ IF RefreshOk
       THEN /\ recovery' = "ok"
            /\ pc' = [pc EXCEPT ![c] = "hdr2"]
            /\ UNCHANGED <<gw_result, running>>
       ELSE /\ recovery' = "failed"
            /\ Escalate(c)
    /\ UNCHANGED <<cfgVars, auth_tokens, now, http_sent, refresh_calls,
                   hdr_refreshes, got_token, cb_calls, status1, status2,
                   start_refreshable, code_verifier, attemptVars, valid_ret, renewVars>>

\* Line 114: the retry's headers.
RetryHeaders(c) ==
    /\ pc[c] = "hdr2"
    /\ BuildHeaders(c, refresh_calls, hdr_refreshes, "req2", "hdr2_wait")
    /\ UNCHANGED <<cfgVars, sessVars, storeVars, now, running, http_sent,
                   cb_calls, status1, status2, recovery, gw_result,
                   start_refreshable, last_write, code_verifier, attemptVars, valid_ret,
                   renewVars>>

\* A retried request that, on an auth status, recovers and retries again.
RetryRequestLoops(c) ==
    /\ pc[c] = "req2"
    /\ http_sent' = http_sent + 1
    /\ \E a \in ApiReplies :
         /\ status2' = a
         /\ IF a # None /\ a[1] \in AUTH_ERROR_CODES
            THEN /\ pc' = [pc EXCEPT ![c] = "hdr2"]
                 /\ UNCHANGED <<gw_result, running>>
            ELSE Return(c, IF a = Some(200) THEN "json" ELSE "fail")
    /\ UNCHANGED <<cfgVars, sessVars, storeVars, now, refresh_calls,
                   hdr_refreshes, got_token, cb_calls, status1, recovery,
                   start_refreshable, refresh_ret, refreshers, last_write,
                   code_verifier, attemptVars, valid_ret, renewVars>>

\* A retried request that reports every failure, whatever its reason, as an
\* authentication failure.
RetryRequestEscalatesAll(c) ==
    /\ pc[c] = "req2"
    /\ http_sent' = http_sent + 1
    /\ \E a \in ApiReplies :
         /\ status2' = a
         /\ IF a # Some(200)
            THEN Escalate(c)
            ELSE Return(c, "json")
    /\ UNCHANGED <<cfgVars, sessVars, storeVars, now, refresh_calls,
                   hdr_refreshes, got_token, cb_calls, status1, recovery,
                   start_refreshable, refresh_ret, refreshers, last_write,
                   code_verifier, attemptVars, valid_ret, renewVars>>

\* Lines 115-125 and 137-148: the retried request; its status is final.
RetryRequest(c) ==
    /\ pc[c] = "req2"
    /\ http_sent' = http_sent + 1
    /\ \E a \in ApiReplies :
         /\ status2' = a
         /\ IF a # None /\ a[1] \in AUTH_ERROR_CODES
            THEN Escalate(c)
            ELSE Return(c, IF a = Some(200) THEN "json" ELSE "fail")
    /\ UNCHANGED <<cfgVars, sessVars, storeVars, now, refresh_calls,
                   hdr_refreshes, got_token, cb_calls, status1, recovery,
                   start_refreshable, refresh_ret, refreshers, last_write,
                   code_verifier, attemptVars, valid_ret, renewVars>>

\* A callback that clears the whole session.
OnAuthFailureClearsAll(c) ==
    /\ pc[c] = "escalate"
    /\ access_token' = None /\ token_expiry' = None
    /\ refresh_token' = None /\ id_token' = None
    /\ last_write' = "callback"
    /\ cb_calls' = cb_calls + 1
    /\ Return(c, "fail")
    /\ UNCHANGED <<cfgVars, storeVars, now, http_sent, refresh_calls,
                   hdr_refreshes, got_token, status1, status2, recovery,
                   start_refreshable, refresh_ret, refreshers, code_verifier, attemptVars,
                   valid_ret, renewVars>>

\* A callback invoked in the try block and once more by the except branch.
OnAuthFailureTwice(c) ==
    /\ pc[c] = "escalate"
    /\ access_token' = None
    /\ token_expiry' = None
    /\ last_write' = "callback"
    /\ cb_calls' = cb_calls + 2
    /\ Return(c, "fail")
    /\ UNCHANGED <<cfgVars, refresh_token, id_token, storeVars, now,
                   http_sent, refresh_calls, hdr_refreshes, got_token, status1, status2,
                   recovery, start_refreshable, refresh_ret, refreshers,
                   code_verifier, attemptVars, valid_ret, renewVars>>

\* MonitorCargadores._on_auth_failure, then `return None`.
OnAuthFailure(c) ==
    /\ pc[c] = "escalate"
    /\ access_token' = None
    /\ token_expiry' = None
    /\ last_write' = "callback"
    /\ cb_calls' = cb_calls + 1
    /\ Return(c, "fail")
    /\ UNCHANGED <<cfgVars, refresh_token, id_token, storeVars, now,
                   http_sent, refresh_calls, hdr_refreshes, got_token, status1, status2,
                   recovery, start_refreshable, refresh_ret, refreshers,
                   code_verifier, attemptVars, valid_ret, renewVars>>

\* The wall clock.
Tick ==
    /\ now < MaxNow
    /\ now' = now + 1
    /\ UNCHANGED <<cfgVars, sessVars, storeVars, running, pc, callVars,
                   refresh_ret, refreshers, last_write, code_verifier, attemptVars,
                   valid_ret, renewVars>>

\* ------------------------------------ MonitorCargadores.ensure_authenticated
\* The bot is configured with IBERDROLA_USER/PASS (auth_enabled) and
\* self.auth exists since __init__.

\* _save_auth_to_db: the auth_tokens row becomes the session as it will be.
SaveAuthToDb ==
    auth_tokens' = Some([access |-> access_token', refresh |-> refresh_token',
                         id |-> id_token', expiry |-> token_expiry'])

\* An ensure_authenticated that goes to the full login whenever the token
\* is not valid, without trying the refresh token.
EnsureStartLoginFirst(c) ==
    /\ pc[c] = "idle" /\ running = "none"
    /\ IF is_token_valid
       THEN UNCHANGED <<pc, running, refresh_ret, refreshers>>
       ELSE /\ pc' = [pc EXCEPT ![c] = "login_wait"]
            /\ UNCHANGED <<running, refresh_ret, refreshers>>
    /\ login_calls' = [login_calls EXCEPT ![c] =
                         IF ~is_token_valid THEN 1 ELSE 0]
    /\ mfa_submits' = [mfa_submits EXCEPT ![c] = 0]
    /\ UNCHANGED exchange_verifier
    /\ UNCHANGED <<cfgVars, sessVars, storeVars, now, callVars, last_write,
                   code_verifier, valid_ret, renewVars>>

\* Lines 192-211: a valid token returns (True, None) at once; else a
\* refresh is tried when a refresh token exists; else the login starts in
\* the executor and the coroutine awaits it.
EnsureStart(c) ==
    /\ pc[c] = "idle" /\ running = "none"
    /\ IF is_token_valid
       THEN UNCHANGED <<pc, running, refresh_ret, refreshers>>
       ELSE IF refresh_token # None
       THEN /\ SendRefresh(c)
            /\ pc' = [pc EXCEPT ![c] = "ens_wait"]
            /\ running' = c
       ELSE /\ pc' = [pc EXCEPT ![c] = "login_wait"]
            /\ UNCHANGED <<running, refresh_ret, refreshers>>
    /\ login_calls' = [login_calls EXCEPT ![c] =
                         IF ~is_token_valid /\ refresh_token = None
                         THEN 1 ELSE 0]
    /\ mfa_submits' = [mfa_submits EXCEPT ![c] = 0]
    /\ UNCHANGED exchange_verifier
    /\ UNCHANGED <<cfgVars, sessVars, storeVars, now, callVars, last_write,
                   code_verifier, valid_ret, renewVars>>

\* Lines 199-211: the refresh returns; success is saved to the database,
\* failure falls through to the login.
EnsureRefreshed(c) ==
    /\ pc[c] = "ens_wait"
    /\ ReceiveRefresh
    /\ running' = "none"
    /\ IF RefreshOk
       THEN /\ SaveAuthToDb
            /\ pc' = [pc EXCEPT ![c] = "idle"]
       ELSE /\ pc' = [pc EXCEPT ![c] = "login_wait"]
            /\ UNCHANGED auth_tokens
    /\ login_calls' = [login_calls EXCEPT ![c] =
                         IF RefreshOk THEN @ ELSE @ + 1]
    /\ UNCHANGED <<cfgVars, now, callVars, code_verifier, mfa_submits,
                   exchange_verifier, valid_ret, renewVars>>

\* start_login in the executor thread, line 154: _generate_pkce.
LoginBegin(c) ==
    /\ pc[c] = "login_wait"
    /\ code_verifier' = c
    /\ pc' = [pc EXCEPT ![c] = "login_browser"]
    /\ UNCHANGED <<attemptVars, valid_ret, renewVars, cfgVars, sessVars, storeVars, now,
                   running, callVars, refresh_ret, refreshers, last_write>>

\* The token exchange of a login (_handle_callback ->
\* _exchange_code_for_tokens) on reply r, in the executor thread.
Exchange(c, r) ==
    LET out == ExchangeApply(r, Session, now, tokens_file)
    IN /\ SetSession(out.sess)
       /\ file_data' = IF out.saved THEN Some(out.sess) ELSE file_data
       /\ refreshers' = RefreshersAfter(out.sess, now)
       /\ last_write' = IF out.ok THEN "exchange_ok"
                        ELSE IF out.wrote THEN "exchange_failed" ELSE last_write
       /\ pc' = [pc EXCEPT ![c] = IF out.ok THEN "login_ret_ok"
                                  ELSE "login_ret_fail"]
       /\ exchange_verifier' = [exchange_verifier EXCEPT ![c] = code_verifier]

\* start_login, lines 168-258: the browser step fails, or lands on the MFA
\* challenge, or on the callback whose code is exchanged at once.
LoginBrowser(c) ==
    /\ pc[c] = "login_browser"
    /\ \/ /\ \E p \in {"login_ret_fail", "login_ret_mfa"} :
               pc' = [pc EXCEPT ![c] = p]
          /\ UNCHANGED <<sessVars, file_data, refreshers, last_write,
                         exchange_verifier>>
       \/ \E r \in RepliesNow : Exchange(c, r)
    /\ UNCHANGED <<cfgVars, auth_tokens, now, running, callVars, refresh_ret,
                   code_verifier, login_calls, mfa_submits, valid_ret,
                   renewVars>>

\* Lines 213-234 once the loop resumes the coroutine: no result ends with
\* (False, ...); mfa_required awaits the code from the inbox.
EnsureAfterLogin(c) ==
    /\ pc[c] \in {"login_ret_fail", "login_ret_mfa"} /\ running = "none"
    /\ pc' = [pc EXCEPT ![c] = IF pc[c] = "login_ret_mfa" THEN "mfa_wait"
                               ELSE "idle"]
    /\ exchange_verifier' = [exchange_verifier EXCEPT ![c] = "none"]
    /\ IF pc[c] = "login_ret_mfa" THEN UNCHANGED <<login_calls, mfa_submits>>
       ELSE EnsureReturns(c)
    /\ UNCHANGED <<cfgVars, sessVars, storeVars, now, running, callVars,
                   refresh_ret, refreshers, last_write, code_verifier,
                   valid_ret, renewVars>>

\* get_mfa_code_from_email in the executor: a code, or none (not
\* configured, timeout, error).
MfaCode(c) ==
    /\ pc[c] = "mfa_wait"
    /\ \E p \in {"mfa_ret_otp", "mfa_ret_none"} : pc' = [pc EXCEPT ![c] = p]
    /\ UNCHANGED <<cfgVars, sessVars, storeVars, now, running, callVars,
                   refresh_ret, refreshers, last_write, code_verifier, attemptVars,
                   valid_ret, renewVars>>

\* Lines 229-234: without a code (False, ...); with one, submit_mfa_code
\* goes to the executor.
EnsureAfterMfa(c) ==
    /\ pc[c] \in {"mfa_ret_otp", "mfa_ret_none"} /\ running = "none"
    /\ pc' = [pc EXCEPT ![c] = IF pc[c] = "mfa_ret_otp" THEN "submit_wait"
                               ELSE "idle"]
    /\ IF pc[c] = "mfa_ret_otp"
       THEN /\ mfa_submits' = [mfa_submits EXCEPT ![c] = @ + 1]
            /\ UNCHANGED login_calls
       ELSE EnsureReturns(c)
    /\ UNCHANGED <<cfgVars, sessVars, storeVars, now, running, callVars,
                   refresh_ret, refreshers, last_write, code_verifier,
                   exchange_verifier, valid_ret, renewVars>>

\* submit_mfa_code in the executor: no authorization code comes back, or
\* one does and is exchanged.
SubmitMfa(c) ==
    /\ pc[c] = "submit_wait"
    /\ \/ /\ pc' = [pc EXCEPT ![c] = "login_ret_fail"]
          /\ UNCHANGED <<sessVars, file_data, refreshers, last_write,
                         exchange_verifier>>
       \/ \E r \in RepliesNow : Exchange(c, r)
    /\ UNCHANGED <<cfgVars, auth_tokens, now, running, callVars, refresh_ret,
                   code_verifier, login_calls, mfa_submits, valid_ret,
                   renewVars>>

\* Lines 236-244: a successful login is saved and the API client replaced
\* by one with the auth manager and the callback.
EnsureLoggedIn(c) ==
    /\ pc[c] = "login_ret_ok" /\ running = "none"
    /\ UNCHANGED sessVars
    /\ SaveAuthToDb
    /\ api_auth' = TRUE
    /\ on_auth_failure' = TRUE
    /\ versionApp' = VersionHeader(BuiltInVersion)
    /\ pc' = [pc EXCEPT ![c] = "idle"]
    /\ exchange_verifier' = [exchange_verifier EXCEPT ![c] = "none"]
    /\ EnsureReturns(c)
    /\ UNCHANGED <<tokens_file, botConfig, mailVars, checkVars, pkceVars, file_data, now, running, callVars,
                   refresh_ret, refreshers, last_write, code_verifier,
                   valid_ret, renewVars>>

\* ------------------------------------------------------------- scripts

\* reservar_cargador.py / test_*.py: refresh when the stored token is not
\* valid and a refresh token exists.
ScriptRefresh ==
    /\ pc["script"] = "idle"
    /\ ~is_token_valid /\ refresh_token # None
    /\ SendRefresh("script")
    /\ pc' = [pc EXCEPT !["script"] = "script_wait"]
    /\ UNCHANGED <<cfgVars, sessVars, storeVars, now, running, callVars,
                   last_write, code_verifier, attemptVars, valid_ret, renewVars>>

ScriptRefreshed ==
    /\ pc["script"] = "script_wait"
    /\ ReceiveRefresh
    /\ pc' = [pc EXCEPT !["script"] = "idle"]
    /\ UNCHANGED <<cfgVars, auth_tokens, now, running, callVars,
                   code_verifier, attemptVars, valid_ret, renewVars>>

\* ------------------------------------------------------------- config

\* Everything but the configuration.
beyondConfig == <<tokens_file, on_auth_failure, api_auth, sessVars, storeVars,
                 now, running, pc, callVars, refresh_ret, refreshers,
                 last_write, code_verifier, attemptVars, valid_ret, renewVars,
                 mailVars, checkVars, pkceVars>>

\* get_config(clave): row[0] if row else None (lines 294-301).
get_config(clave) ==
    IF configuracion[clave] = None THEN None ELSE configuracion[clave][1]

\* A run() that does not look at the saved interval.
RunKeepsInterval(saved, current) == current

\* run(), lines 1285-1287: a saved interval replaces the one __init__
\* took from the environment (no row and an empty text are both false).
RunLoadsInterval(saved, current) ==
    IF saved # None THEN int(saved) ELSE current

\* The process restarts: __init__ (lines 19-71) takes the interval and the
\* version from the environment and _load_app_version (lines 703-710)
\* applies a saved version; the table outlives the process.
Restart ==
    /\ check_interval' = DefaultInterval
    /\ app_version' = LET saved == get_config("app_version")
                      IN IF saved # None THEN saved ELSE DefaultVersion
    /\ waiting_for_version' = FALSE
    /\ phase' = "constructed"
    /\ version_input' = None
    /\ version_reply' = "none"
    /\ versionApp' = LET saved == get_config("app_version")
                      IN VersionHeader(IF saved # None THEN saved
                                       ELSE BuiltInVersion)
    /\ UNCHANGED <<configuracion, beyondConfig>>

\* run() up to the start of the handlers.
RunStart ==
    /\ phase = "constructed"
    /\ check_interval' =
         RunLoadsInterval(get_config("check_interval"), check_interval)
    /\ phase' = "running"
    /\ UNCHANGED <<configuracion, app_version, waiting_for_version,
                   version_input, version_reply, versionApp, beyondConfig>>

\* boton_callback on 'interval_<data>', lines 760-763: the attribute is
\* assigned, then set_config stores str() of it.
IntervalCallback(data) ==
    /\ phase = "running"
    /\ LET nuevo_intervalo == int(data)
       IN /\ check_interval' = nuevo_intervalo
          /\ configuracion' = [configuracion EXCEPT
                                 !.check_interval = Some(str(nuevo_intervalo))]
    /\ UNCHANGED <<app_version, waiting_for_version, phase, version_input,
                   version_reply, versionApp, beyondConfig>>

\* ver_version, line 725.
VerVersion ==
    /\ phase = "running"
    /\ waiting_for_version' = TRUE
    /\ UNCHANGED <<configuracion, check_interval, app_version, phase,
                   version_input, version_reply, versionApp, beyondConfig>>

\* manejar_texto with waiting_for_version set (lines 492-495) and
\* _set_new_version (lines 728-753): the stripped text is tested, then
\* stored (line 742), then applied (line 745).
SetNewVersion(texto) ==
    /\ phase = "running" /\ waiting_for_version
    /\ waiting_for_version' = FALSE
    /\ version_input' = Some(texto)
    /\ LET version_str == Strip(texto)
       IN IF ~MatchesVersion(version_str)
          THEN /\ version_reply' = "invalid"
               /\ UNCHANGED <<configuracion, app_version, versionApp>>
          ELSE /\ configuracion' = [configuracion EXCEPT
                                      !.app_version = Some(version_str)]
               /\ app_version' = version_str
               /\ versionApp' = VersionHeader(version_str)
               /\ version_reply' = "updated"
    /\ UNCHANGED <<check_interval, phase, beyondConfig>>

NextConfig ==
    \/ Restart
    \/ RunStart
    \/ \E data \in KeyboardIntervals : IntervalCallback(data)
    \/ VerVersion
    \/ \E texto \in VersionInputs : SetNewVersion(texto)

\* --------------------------------------------------------------- mail

\* ensure_authenticated calls get_mfa_code_from_email(max_wait_seconds=90);
\* the helper passes max_age_minutes=5 and poll_interval=5.
MaxWaitSeconds == 90
PollInterval == 5
MaxAgeMinutes == 5
\* "Dar 30 segundos de margen por posibles delays".
StartMargin == 30
\* Only the 10 most recent mails are looked at.
MailsLookedAt == 10

\* The wall clock when the run begins, late enough for older mails.
ClockOrigin == 400

\* Dates a mail's Date header can give: long before the call, just
\* outside and just inside the margin, right before the call, at it and
\* after it.
MailDates ==
    {ClockOrigin - 400, ClockOrigin - StartMargin - 1,
     ClockOrigin - StartMargin, ClockOrigin - 1, ClockOrigin,
     ClockOrigin + PollInterval}
\* A mail of the sender: its Date (None when it does not parse) and
\* whether it is a verification mail with a code, one without a code in
\* its body, or one with another subject.
Mails ==
    [date : {None} \cup {Some(d) : d \in MailDates},
     kind : {"code", "nocode", "other"}]

\* Everything but the mail reader.
beyondMail == <<tokens_file, on_auth_failure, api_auth, botConfig, sessVars,
               storeVars, now, running, pc, callVars, refresh_ret, refreshers,
               last_write, code_verifier, attemptVars, valid_ret, renewVars,
               checkVars, versionApp, pkceVars>>

\* A date test that lets every mail through.
AcceptsAnyDate(date, start, clock) == TRUE

\* Lines 193-219: a mail is skipped when its Date parses and is earlier
\* than the start of the search less the margin, or older than the
\* maximum age; a Date that does not parse raises inside the try and the
\* mail is taken as recent.
AcceptsDate(date, start, clock) ==
    \/ date = None
    \/ /\ ~(date[1] < start - StartMargin)
       /\ ~(clock - date[1] > MaxAgeMinutes * 60)

\* Lines 178-229, from mail i down to the oldest one looked at: the first
\* mail with the subject, an accepted date and a code in its body.
RECURSIVE SearchFrom(_, _, _, _)
SearchFrom(box, i, start, clock) ==
    IF i = 0 \/ i <= Len(box) - MailsLookedAt THEN None
    ELSE IF /\ box[i].kind # "other"
            /\ AcceptsDate(box[i].date, start, clock)
            /\ box[i].kind = "code"
         THEN Some(box[i])
         ELSE SearchFrom(box, i - 1, start, clock)

\* _search_for_code: newest first (email_ids.reverse()).
search_for_code(box, start, clock) == SearchFrom(box, Len(box), start, clock)

\* A mail of the sender reaches the inbox.
MailArrives(m) ==
    /\ Len(inbox) < MaxMails
    /\ inbox' = Append(inbox, m)
    /\ UNCHANGED <<reader, mail_clock, search_start_time, mfa_found,
                   beyondMail>>

\* get_latest_mfa_code, lines 130-138: without a connection None is
\* returned; else the start of the search is noted.
GetLatestMfaCode ==
    /\ reader = "idle"
    /\ \E connected \in BOOLEAN :
         IF connected
         THEN /\ search_start_time' = Some(mail_clock)
              /\ reader' = "search"
         ELSE /\ reader' = "returned"
              /\ UNCHANGED search_start_time
    /\ UNCHANGED <<inbox, mail_clock, mfa_found, beyondMail>>

\* Lines 140-152: one round of the loop: a code found is returned; else
\* the reader sleeps if another round fits into the wait, and gives up
\* if not.  An IMAP search that fails finds nothing.
SearchRound ==
    /\ reader = "search"
    /\ \E search_ok \in BOOLEAN :
         LET code == IF search_ok
                     THEN search_for_code(inbox, search_start_time[1],
                                          mail_clock)
                     ELSE None
             elapsed == mail_clock - search_start_time[1]
         IN /\ mfa_found' = code
            /\ reader' = IF code # None THEN "returned"
                         ELSE IF elapsed + PollInterval < MaxWaitSeconds
                         THEN "sleep" ELSE "returned"
    /\ UNCHANGED <<inbox, mail_clock, search_start_time, beyondMail>>

\* time.sleep(poll_interval) ends and the while condition holds.
SleepEnds ==
    /\ reader = "sleep"
    /\ mail_clock' = mail_clock + PollInterval
    /\ reader' = "search"
    /\ UNCHANGED <<inbox, search_start_time, mfa_found, beyondMail>>

NextMail ==
    \/ \E m \in Mails : MailArrives(m)
    \/ GetLatestMfaCode
    \/ SearchRound
    \/ SleepEnds

\* ---------------------------------------------------------------- Init

\* Token sets a previous run can have stored (after a login or a refresh).
StoredRows ==
    [access : {Some(StoredToken)}, refresh : {Some(StoredToken)},
     id : {Some(StoredIdToken)},
     expiry : {Some(SafetyBuffer), Some(SafetyBuffer + 1), Some(DefaultExpiresIn)}]

NoSession == [access |-> None, refresh |-> None, id |-> None, expiry |-> None]

\* ------------------------------------------------- chequear_cargadores
\* The scheduler task and the "Forzar Chequeo" handler both run
\* chequear_cargadores; it gives the event loop back at
\* ensure_authenticated (line 431) and at enviar_mensaje (line 459).
\* The database writes are taken to succeed.

\* Everything but the charger check.
beyondCheck == <<tokens_file, on_auth_failure, api_auth, botConfig, mailVars,
                 versionApp, pkceVars, sessVars, storeVars, now, running, pc, callVars,
                 refresh_ret, refreshers, last_write, code_verifier,
                 attemptVars, valid_ret, renewVars>>

\* What obtener_estado_conectores can return: None (or an empty list) when
\* the details could not be fetched, else the status of each socket of
\* the chargers asked for.
Observations ==
    {None} \cup
    {Some(o) : o \in UNION {[D -> Statuses] : D \in SUBSET Sockets \ {{}}}}

\* A detectar_cambios that also reports sockets seen for the first time.
detectar_cambios_sin_anterior(estados_anteriores, conectores_nuevos) ==
    {s \in DOMAIN conectores_nuevos :
        \/ estados_anteriores[s] = None
        \/ estados_anteriores[s][1] # conectores_nuevos[s]}

\* detectar_cambios, lines 312-329: the sockets whose stored status is
\* there (truthy) and is not the new one.
detectar_cambios(estados_anteriores, conectores_nuevos) ==
    {s \in DOMAIN conectores_nuevos :
        /\ estados_anteriores[s] # None
        /\ estados_anteriores[s][1] # conectores_nuevos[s]}

\* guardar_estado, lines 259-281: INSERT OR REPLACE of every socket given;
\* the other rows stay.
guardar_estado(estados, conectores_nuevos) ==
    [s \in Sockets |-> IF s \in DOMAIN conectores_nuevos
                       THEN Some(conectores_nuevos[s]) ELSE estados[s]]

\* toggle_pausa, line 653; callbacks run one at a time.
TogglePausa ==
    /\ checker["manual"] = "idle"
    /\ scanning_paused' = ~scanning_paused
    /\ UNCHANGED <<estado_conectores, checker, conectores, cambios,
                   beyondCheck>>

\* forzar_chequeo, line 644: the first reply is awaited.
ForzarChequeo ==
    /\ checker["manual"] = "idle"
    /\ checker' = [checker EXCEPT !["manual"] = "begun"]
    /\ UNCHANGED <<scanning_paused, estado_conectores, conectores, cambios,
                   beyondCheck>>

\* chequear_cargadores, lines 425-431, called by run_schedule_loop when
\* its sleep ends (lines 1273, 1280) or by forzar_chequeo (line 645):
\* it returns at once while the scans are paused, whoever calls.
Chequear(c) ==
    /\ checker[c] = (IF c = "manual" THEN "begun" ELSE "idle")
    /\ checker' = [checker EXCEPT ![c] = IF scanning_paused THEN "idle"
                                         ELSE "auth"]
    /\ conectores' = [conectores EXCEPT ![c] = None]
    /\ cambios' = [cambios EXCEPT ![c] = {}]
    /\ UNCHANGED <<scanning_paused, estado_conectores, beyondCheck>>

\* Lines 444-465: the fetch; nothing fetched returns; changes are sent
\* before the state is saved, no change saves at once.
ChequearFetch(c, obs) ==
    /\ checker[c] = "auth"
    /\ conectores' = [conectores EXCEPT ![c] = obs]
    /\ IF obs = None
       THEN /\ checker' = [checker EXCEPT ![c] = "idle"]
            /\ UNCHANGED <<estado_conectores, cambios>>
       ELSE LET found == detectar_cambios(estado_conectores, obs[1])
            IN /\ cambios' = [cambios EXCEPT ![c] = found]
               /\ IF found # {}
                  THEN /\ checker' = [checker EXCEPT ![c] = "sending"]
                       /\ UNCHANGED estado_conectores
                  ELSE /\ checker' = [checker EXCEPT ![c] = "idle"]
                       /\ estado_conectores' =
                            guardar_estado(estado_conectores, obs[1])
    /\ UNCHANGED <<scanning_paused, beyondCheck>>

\* Lines 459-462: enviar_mensaje has returned (it swallows its errors);
\* the state is saved.
ChequearSent(c) ==
    /\ checker[c] = "sending"
    /\ estado_conectores' = guardar_estado(estado_conectores, conectores[c][1])
    /\ checker' = [checker EXCEPT ![c] = "idle"]
    /\ UNCHANGED <<scanning_paused, conectores, cambios, beyondCheck>>

NextCheck ==
    \/ TogglePausa
    \/ ForzarChequeo
    \/ \E c \in Checkers :
         \/ Chequear(c)
         \/ \E obs \in Observations : ChequearFetch(c, obs)
         \/ ChequearSent(c)

\* ----------------------------------------------- IberdrolaAuth._generate_pkce

\* Everything but the PKCE pair.
beyondPkce == <<tokens_file, on_auth_failure, api_auth, botConfig, mailVars,
                checkVars, versionApp, sessVars, storeVars, now, running, pc,
                callVars, refresh_ret, refreshers, last_write, code_verifier,
                attemptVars, valid_ret, renewVars>>

\* The URL-safe Base64 alphabet, by 6-bit value + 1.
B64Chars ==
    <<"A", "B", "C", "D", "E", "F", "G", "H", "I", "J", "K", "L", "M",
      "N", "O", "P", "Q", "R", "S", "T", "U", "V", "W", "X", "Y", "Z",
      "a", "b", "c", "d", "e", "f", "g", "h", "i", "j", "k", "l", "m",
      "n", "o", "p", "q", "r", "s", "t", "u", "v", "w", "x", "y", "z",
      "0", "1", "2", "3", "4", "5", "6", "7", "8", "9", "-", "_">>
B64Char(v) == B64Chars[v + 1]
B64Value(ch) == (CHOOSE i \in 1..64 : B64Chars[i] = ch) - 1

\* base64.urlsafe_b64encode: three bytes make four characters; a rest of
\* one byte makes two characters and "==", of two bytes three and "=".
RECURSIVE urlsafe_b64encode(_)
urlsafe_b64encode(bytes) ==
    IF Len(bytes) = 0 THEN <<>>
    ELSE IF Len(bytes) = 1
    THEN <<B64Char(bytes[1] \div 4), B64Char((bytes[1] % 4) * 16), "=", "=">>
    ELSE IF Len(bytes) = 2
    THEN LET n == bytes[1] * 256 + bytes[2]
         IN <<B64Char(n \div 1024), B64Char((n \div 16) % 64),
              B64Char((n % 16) * 4), "=">>
    ELSE LET n == bytes[1] * 65536 + bytes[2] * 256 + bytes[3]
         IN <<B64Char(n \div 262144), B64Char((n \div 4096) % 64),
              B64Char((n \div 64) % 64), B64Char(n % 64)>>
            \o urlsafe_b64encode(SubSeq(bytes, 4, Len(bytes)))

\* base64.urlsafe_b64decode of a padded text: four characters make three
\* bytes, fewer where the group ends in "=".
RECURSIVE urlsafe_b64decode(_)
urlsafe_b64decode(text) ==
    IF Len(text) < 4 THEN <<>>
    ELSE LET v(i) == IF text[i] = "=" THEN 0 ELSE B64Value(text[i])
             n == v(1) * 262144 + v(2) * 4096 + v(3) * 64 + v(4)
             three == <<n \div 65536, (n \div 256) % 256, n % 256>>
         IN IF text[3] = "=" THEN <<three[1]>>
            ELSE IF text[4] = "=" THEN <<three[1], three[2]>>
            ELSE three \o urlsafe_b64decode(SubSeq(text, 5, Len(text)))

\* The text with "=" added up to a multiple of four characters.
RECURSIVE Padded(_)
Padded(text) == IF Len(text) % 4 = 0 THEN text ELSE Padded(text \o <<"=">>)

\* bytes.rstrip(b'='): the trailing occurrences of ch are removed.
RECURSIVE rstrip(_, _)
rstrip(text, ch) ==
    IF Len(text) > 0 /\ text[Len(text)] = ch
    THEN rstrip(SubSeq(text, 1, Len(text) - 1), ch)
    ELSE text

\* str.encode('utf-8') of a text over the Base64 alphabet: its ASCII codes.
Ascii(ch) ==
    LET v == B64Value(ch)
    IN IF v < 26 THEN 65 + v
       ELSE IF v < 52 THEN 97 + (v - 26)
       ELSE IF v < 62 THEN 48 + (v - 52)
       ELSE IF v = 62 THEN 45 ELSE 95
encode(text) == [i \in 1..Len(text) |-> Ascii(text[i])]

\* hashlib.sha256(..).digest(): 32 bytes that depend on the input alone.
\* The library's compression function is not reproduced; a positional
\* checksum stands for it.
DigestSize == 32
RECURSIVE Mix(_, _)
Mix(bytes, i) ==
    IF bytes = <<>> THEN 0
    ELSE (Head(bytes) * (i + Len(bytes)) + Mix(Tail(bytes), i)) % 256
sha256(bytes) == [i \in 1..DigestSize |-> Mix(bytes, i)]

\* secrets.token_urlsafe(nbytes): the Base64 text of nbytes random bytes,
\* padding stripped.
TokenBytes == 32
MaxSeed == 34
Strides == {0, 1, 37}
RandomBytes ==
    {[i \in 1..TokenBytes |-> (a * i + b) % 256] :
        a \in Strides, b \in 0..MaxSeed}
\* A token made of the first 24 bytes only.
token_urlsafe_short(random) ==
    rstrip(urlsafe_b64encode(SubSeq(random, 1, 24)), "=")
token_urlsafe(random) == rstrip(urlsafe_b64encode(random), "=")

\* _generate_pkce, lines 59-63.
GeneratePkce ==
    /\ \E random \in RandomBytes :
         LET verifier == token_urlsafe(random)
             digest == sha256(encode(verifier))
         IN /\ pkce_verifier' = Some(verifier)
            /\ code_challenge' =
                 Some(rstrip(urlsafe_b64encode(digest), "="))
    /\ UNCHANGED beyondPkce

InitCommon ==
    /\ running = "none"
    /\ pc = [c \in Callers |-> "idle"]
    /\ http_sent = 0 /\ refresh_calls = 0 /\ hdr_refreshes = 0 /\ cb_calls = 0
    /\ got_token = None
    /\ status1 = None /\ status2 = None /\ recovery = "none"
    /\ gw_result = "none"
    /\ start_refreshable = FALSE
    /\ refresh_ret = "none"
    /\ refreshers = {}
    /\ last_write = "load"
    /\ code_verifier = "none"
    /\ login_calls = [c \in BotCallers |-> 0]
    /\ mfa_submits = [c \in BotCallers |-> 0]
    /\ exchange_verifier = [c \in BotCallers |-> "none"]
    /\ valid_ret = FALSE
    /\ auto_renew_active = FALSE
    /\ auto_renew_task = "none"
    /\ cycles = 0
    /\ cancel_calls = 0 /\ pay_calls = 0 /\ reserve_calls = 0
    /\ notifications = 0
    /\ last_notice = "none"
    /\ delivered = "none"
    /\ cancel_ret = "none"
    /\ payment_ret = "none"
    /\ payment_timed_out = FALSE
    /\ tx_ret = "unset" /\ avail_ret = "none"
    /\ method_calls = 0 /\ method_ret = "none"
    /\ order_calls = 0 /\ order_ret = "none"
    /\ reserve_ret = "none"
    /\ auto_renew_cupr_id = None /\ auto_renew_socket_id = None
    /\ auto_renew_next_time = None
    /\ handler = "idle" /\ requested = None /\ reserva_ret = "none"
    /\ timer = None
    /\ delays = 0
    /\ remote = "free"
    /\ live_tasks = 0
    /\ user_stopped = FALSE
    /\ last_control = "none"
    /\ cancel_report = "none"
    /\ configuracion = [check_interval |-> None, app_version |-> None]
    /\ check_interval = DefaultInterval
    /\ app_version = DefaultVersion
    /\ waiting_for_version = FALSE
    /\ phase = "constructed"
    /\ version_input = None
    /\ version_reply = "none"
    /\ inbox = <<>>
    /\ reader = "idle"
    /\ mail_clock = ClockOrigin
    /\ search_start_time = None
    /\ mfa_found = None
    /\ scanning_paused = FALSE
    /\ estado_conectores = [s \in Sockets |-> None]
    /\ checker = [c \in Checkers |-> "idle"]
    /\ conectores = [c \in Checkers |-> None]
    /\ cambios = [c \in Checkers |-> {}]
    /\ versionApp = VersionHeader(BuiltInVersion)
    /\ pkce_verifier = None
    /\ code_challenge = None

\* MonitorCargadores.__init__ -> _load_auth_from_db: the session is what
\* the auth_tokens row holds when it has a refresh token, and only then
\* does the API client get the auth manager and the callback.
InitBot ==
    /\ tokens_file = FALSE
    /\ file_data = None
    /\ auth_tokens \in {None} \cup {Some(r) : r \in StoredRows}
    /\ LET loaded == auth_tokens # None /\ auth_tokens[1].refresh # None
           s == IF loaded THEN auth_tokens[1] ELSE NoSession
       IN /\ access_token = s.access /\ refresh_token = s.refresh
          /\ id_token = s.id /\ token_expiry = s.expiry
          /\ api_auth = loaded
          /\ on_auth_failure = loaded
    /\ now = 0
    /\ InitCommon

\* A script: IberdrolaAuth() -> _load_tokens, then
\* IberdrolaAPI(device_id, auth_manager=auth) with no callback.
InitScript ==
    /\ tokens_file = TRUE
    /\ auth_tokens = None
    /\ file_data \in {None} \cup {Some(r) : r \in StoredRows}
    /\ LET s == IF file_data # None THEN file_data[1] ELSE NoSession
       IN /\ access_token = s.access /\ refresh_token = s.refresh
          /\ id_token = s.id /\ token_expiry = s.expiry
    /\ api_auth = TRUE
    /\ on_auth_failure = FALSE
    /\ now = 0
    /\ InitCommon

Gateway(c) ==
    \/ StartRequest(c)
    \/ HeadersRefreshed(c)
    \/ FirstRequest(c)
    \/ RecoveryRefreshed(c)
    \/ RetryHeaders(c)
    \/ RetryRequest(c)

\* The bot's tasks calling the API client.
Next ==
    \/ Tick
    \/ \E c \in BotCallers :
         \/ Gateway(c)
         \/ OnAuthFailure(c)

\* The bot's request path.
Spec == InitBot /\ [][Next]_vars

\* The bot's tasks calling ensure_authenticated.
NextLogin ==
    \/ Tick
    \/ \E c \in BotCallers :
         \/ EnsureStart(c)
         \/ EnsureRefreshed(c)
         \/ LoginBegin(c)
         \/ LoginBrowser(c)
         \/ EnsureAfterLogin(c)
         \/ MfaCode(c)
         \/ EnsureAfterMfa(c)
         \/ SubmitMfa(c)
         \/ EnsureLoggedIn(c)

\* The bot's authentication path.
SpecLogin == InitBot /\ [][NextLogin]_vars

NextScript ==
    \/ Tick
    \/ Gateway("script")
    \/ ScriptRefresh
    \/ ScriptRefreshed

\* A command-line script with its tokens file.
SpecScript == InitScript /\ [][NextScript]_vars

\* ------------------------------------------------------ auto-renewal
\* IberdrolaAPI.get_transaction_in_progress, cancel_reservation,
\* get_payment_method, get_order_id and reserve_charger are called by
\* bot_monitor.py; each is taken to return its data or None.

\* What get_transaction_in_progress tells the loop: no data, a charge in
\* progress, a reservation in progress, or neither.
Transactions == {"none", "charging", "reservation", "idle"}
\* What a remote call returns.
ApiResults == {"data", "none"}
\* What cancel_reservation does: it cancels and says so, it fails, or it
\* cancels and the answer is lost (_cancelar_reserva, lines 1098-1101,
\* re-queries for that case).
CancelOutcomes == {"ok", "fail", "lost"}
\* What the availability re-query finds for the job's socket.
Availabilities == {"yes", "no", "nodata"}
\* The sockets a reserve_<cupr>_<socket> button can name.
RequestedIds == {<<1, 1>>, <<2, 2>>}

\* RENEW_INTERVAL_MINUTES * 60, the argument of asyncio.sleep, and the
\* timedelta added to datetime.now(); the clock counts seconds.
RENEW_INTERVAL_MINUTES == 14
RenewInterval == RENEW_INTERVAL_MINUTES * 60
\* asyncio.sleep(2) after the remote cancel.
SettleDelay == 2

\* What the user's transaction is at Iberdrola, as a truthful answer of
\* get_transaction_in_progress reports it.
ObservedOf(state) ==
    CASE state = "reserved" -> "reservation"
      [] state = "charging" -> "charging"
      [] OTHER -> "idle"
Observed == ObservedOf(remote)
TxReplies == {tx \in Transactions : tx = "none" \/ tx = Observed}

\* The loop task is suspended inside a cycle: at the settle delay, the
\* payment or a notification.
InCycle ==
    auto_renew_task \in {"settle", "paying", "notify_ok", "notify_stop"}

\* The task object behind self.auto_renew_task can still run.
TaskAlive == auto_renew_task \notin {"none", "done"}

\* One run of process_reservation_payment (redsys_payment.py): whether
\* Redsys signed the request, how the browser's wait for the redirect to
\* the notification URL went ("direct": already there after the first two
\* seconds; "redirected": wait_for_url returned; "timeout": it ran out of
\* the 120 seconds; "error": it raised something else), whether the text
\* of the exception mentions ERR_INVALID_AUTH_CREDENTIALS or 401, whether
\* the page is at the notification URL in the end, and whether the run
\* raised instead of returning.
\* Fields that a run does not get to are left at FALSE or "direct".
PaymentRuns ==
    {run \in [signed : BOOLEAN,
              wait : {"direct", "redirected", "timeout", "error"},
              auth_text : BOOLEAN, at_notification : BOOLEAN,
              fault : BOOLEAN] :
        /\ (run.fault \/ ~run.signed) =>
              (run.wait = "direct" /\ ~run.auth_text /\ ~run.at_notification)
        /\ run.fault => ~run.signed
        /\ run.wait \in {"direct", "redirected"} =>
              (~run.auth_text /\ ~run.at_notification)}

\* execute_payment_with_3ds, lines 270-318.
execute_payment_with_3ds(run) ==
    CASE run.wait \in {"direct", "redirected"} -> TRUE
      [] OTHER -> run.auth_text \/ run.at_notification

\* process_reservation_payment, lines 321-391.
process_reservation_payment(run) ==
    IF ~run.signed THEN FALSE ELSE execute_payment_with_3ds(run)

\* payment_success as the bot sees it: an exception of the run is caught
\* at lines 1067 and 1252 and counts as a failure.
Paid(run) == ~run.fault /\ process_reservation_payment(run)

\* The run got to the 3DS wait, the wait ran out of time, and the page
\* never reached the notification URL.
TimedOut(run) ==
    /\ run.signed /\ ~run.fault
    /\ run.wait = "timeout" /\ ~run.at_notification

\* datetime.now() + timedelta(minutes=RENEW_INTERVAL_MINUTES), lines 1032
\* and 1191.
DriftFreeRenewalTime ==
    IF auto_renew_next_time = None THEN now + RenewInterval
    ELSE auto_renew_next_time[1] + RenewInterval
NextRenewalTime == now + RenewInterval

\* Lines 1138 and 1148: what the loop makes of the transaction.
WakeVerdictIgnoresCharge(tx) ==
    IF tx \in {"charging", "reservation"} THEN "renew" ELSE "expired"
WakeVerdictIgnoresExpiry(tx) ==
    IF tx = "charging" THEN "charging" ELSE "renew"
WakeVerdict(tx) ==
    CASE tx = "charging" -> "charging"
      [] tx = "reservation" -> "renew"
      [] OTHER -> "expired"

\* Lines 1170-1176: the job's socket is listed with status AVAILABLE.
SocketAlwaysAvailable(avail) == TRUE
SocketAvailable(avail) == avail = "yes"

\* Line 1246: the silent reservation goes on to reserve_charger.
SilentReservesUnpaid(paid) == TRUE
SilentReserves(paid) == paid

\* Lines 1005 and 1013: the interactive reservation was paid and
\* reserve_charger returned a reservation.
ReservaPaid(paid, result) == paid
ReservaSucceeded(paid, result) == paid /\ result = "data"

\* Lines 1078-1080 and 1111-1113: the task, if any, is cancelled and
\* forgotten.  The CancelledError reaches the task at the await it is
\* suspended at and no handler of the loop catches it, so the task runs
\* no further statement and its pending sleep goes with it.
ForgetLoopTask ==
    /\ UNCHANGED <<auto_renew_task, live_tasks, timer>>
CancelLoopTask ==
    /\ auto_renew_task' = "none"
    /\ live_tasks' = IF TaskAlive THEN live_tasks - 1 ELSE live_tasks
    /\ timer' = None

\* Lines 1036-1038: the previous task, if any, is cancelled and a new one
\* is created; it starts to run at the handler's next await.
AddLoopTask ==
    /\ auto_renew_task' = "created"
    /\ live_tasks' = live_tasks + 1
    /\ timer' = None
ReplaceLoopTask ==
    /\ auto_renew_task' = "created"
    /\ live_tasks' = (IF TaskAlive THEN live_tasks - 1 ELSE live_tasks) + 1
    /\ timer' = None

\* No renewal cycle of the job has been recorded.
FreshCycle ==
    /\ cancel_calls' = 0 /\ pay_calls' = 0 /\ reserve_calls' = 0
    /\ notifications' = 0
    /\ last_notice' = "none"
    /\ delivered' = "none"
    /\ cancel_ret' = "none"
    /\ payment_ret' = "none"
    /\ payment_timed_out' = FALSE
    /\ tx_ret' = "unset" /\ avail_ret' = "none"
    /\ method_calls' = 0 /\ method_ret' = "none"
    /\ order_calls' = 0 /\ order_ret' = "none"
    /\ reserve_ret' = "none"

\* Lines 1140-1146, 1150-1156, 1177-1183, 1209-1215: the loop turns the
\* job off, notifies and breaks.
StopJob(notice) ==
    /\ auto_renew_active' = FALSE
    /\ notifications' = notifications + 1
    /\ last_notice' = notice
    /\ auto_renew_task' = "notify_stop"

\* boton_callback -> _ejecutar_reserva, lines 966-969: the callback is
\* entered with the ids of the button and awaits its first message.
\* Updates are handled one at a time (Application.builder() without
\* concurrent_updates), so no other callback runs until this one is over.
EjecutarReservaBegin ==
    /\ handler = "idle"
    /\ handler' = "started"
    /\ reserva_ret' = "running"
    /\ \E ids \in RequestedIds : requested' = Some(ids)
    /\ UNCHANGED <<authVars, auto_renew_active, auto_renew_task, cycles,
                   cycleVars, jobVars, timer, delays, remote, live_tasks,
                   user_stopped, last_control, cancel_report>>

\* Lines 971-1003: the payment method, the order id, and the payment
\* handed to the executor.
EjecutarReservaOrder ==
    /\ handler = "started"
    /\ \E payment \in ApiResults, order \in ApiResults :
         IF payment = "none"
         THEN /\ reserva_ret' = "no_method" /\ handler' = "idle"
              /\ requested' = None
         ELSE IF order = "none"
         THEN /\ reserva_ret' = "no_order" /\ handler' = "idle"
              /\ requested' = None
         ELSE /\ reserva_ret' = "running" /\ handler' = "paying"
              /\ UNCHANGED requested
    /\ UNCHANGED <<authVars, auto_renew_active, auto_renew_task, cycles,
                   cycleVars, jobVars, timer, delays, remote,
                   live_tasks, user_stopped,
                   last_control, cancel_report>>

\* _ejecutar_reserva from the payment's return, lines 1005-1070: a paid
\* and granted reservation makes the job (lines 1026-1038), which has no
\* cycle of its own yet.  A reservation that fails at any step returns
\* before touching the job.
EjecutarReserva ==
    /\ handler = "paying"
    /\ handler' = "idle"
    /\ \E paid \in BOOLEAN, result \in ApiResults :
         /\ reserva_ret' = IF ~paid THEN "payment_failed"
                           ELSE IF result = "none" THEN "reserve_failed"
                           ELSE "ok"
         /\ IF ReservaSucceeded(paid, result)
            THEN
              /\ remote' = IF result = "data" THEN "reserved" ELSE remote
              /\ auto_renew_active' = TRUE
              /\ auto_renew_cupr_id' = Some(requested[1][1])
              /\ auto_renew_socket_id' = Some(requested[1][2])
              /\ auto_renew_next_time' = Some(NextRenewalTime)
              /\ ReplaceLoopTask
              /\ user_stopped' = FALSE
              /\ last_control' = IF InCycle THEN "replace" ELSE "reserve"
              /\ FreshCycle
            ELSE
              /\ UNCHANGED <<auto_renew_active, auto_renew_task, cycleVars,
                             jobVars, timer, remote, live_tasks,
                             user_stopped, last_control>>
    /\ requested' = None
    /\ UNCHANGED <<authVars, cycles, delays, cancel_report>>

\* A stop that cancels the loop's task and leaves the flag up.
StopAutoRenewKeepsFlag ==
    /\ handler = "idle"
    /\ UNCHANGED auto_renew_active
    /\ CancelLoopTask
    /\ user_stopped' = TRUE
    /\ last_control' = "stop"
    /\ UNCHANGED <<authVars, cycles, cycleVars, jobVars, handlerVars, delays,
                   remote, cancel_report>>

\* _stop_auto_renew, lines 1110-1113.
StopAutoRenew ==
    /\ handler = "idle"
    /\ auto_renew_active' = FALSE
    /\ CancelLoopTask
    /\ user_stopped' = TRUE
    /\ last_control' = "stop"
    /\ UNCHANGED <<authVars, cycles, cycleVars, jobVars, handlerVars, delays,
                   remote, cancel_report>>

\* Lines 1083-1103: what _cancelar_reserva tells the user, given the
\* transaction query, the cancel_reservation call and the follow-up
\* query made when that call returned nothing.  transaction2 is used
\* without a test for None (line 1100): .get on None raises
\* AttributeError and no message is sent.
CancelReport(tx, o, tx2) ==
    IF tx # "reservation" THEN "no_reservation"
    ELSE IF o = "ok" THEN "cancelled"
    ELSE IF tx2 = "none" THEN "fault"
    ELSE IF tx2 = "reservation" THEN "error"
    ELSE "cancelled"

\* _cancelar_reserva, lines 1077-1103: the job is stopped as above, then
\* the reservation the transaction query reports is cancelled remotely;
\* the callback goes on to await its last edit_message_text, or raises.
CancelarReserva ==
    /\ handler = "idle"
    /\ handler' = "cancel_end"
    /\ auto_renew_active' = FALSE
    /\ CancelLoopTask
    /\ user_stopped' = TRUE
    /\ last_control' = "cancel"
    /\ \E tx \in TxReplies, o \in CancelOutcomes :
         /\ remote' = IF tx = "reservation" /\ o \in {"ok", "lost"}
                      THEN "free" ELSE remote
         /\ \E tx2 \in {"none", ObservedOf(remote')} :
              cancel_report' = CancelReport(tx, o, tx2)
    /\ UNCHANGED <<authVars, cycles, cycleVars, jobVars, requested,
                   reserva_ret, delays>>

\* The callback returns: its message is sent, or its exception has
\* reached the dispatcher.
CancelarReservaEnds ==
    /\ handler = "cancel_end"
    /\ handler' = "idle"
    /\ cancel_report' = "none"
    /\ UNCHANGED <<authVars, auto_renew_active, auto_renew_task, cycles,
                   cycleVars, jobVars, requested, reserva_ret, timer, delays,
                   remote, live_tasks, user_stopped, last_control>>

\* The new task starts: the while test and asyncio.sleep, lines 1126-1128.
LoopStart ==
    /\ auto_renew_task = "created"
    /\ IF auto_renew_active
       THEN /\ auto_renew_task' = "sleep"
            /\ timer' = Some(now + RenewInterval)
            /\ UNCHANGED live_tasks
       ELSE /\ auto_renew_task' = "done"
            /\ live_tasks' = live_tasks - 1
            /\ UNCHANGED timer
    /\ UNCHANGED <<authVars, auto_renew_active, cycles, cycleVars, jobVars,
                   handlerVars, delays, remote, user_stopped,
                   last_control, cancel_report>>

\* Lines 1128-1164: the sleep ends; a job turned off meanwhile ends the
\* loop; otherwise the cycle starts with the transaction query, stops on a
\* charge or on no reservation, and else cancels the reservation (the
\* result of cancel_reservation is not looked at) and waits.
RenewWake ==
    /\ auto_renew_task = "sleep"
    /\ timer # None /\ now >= timer[1]
    /\ cycles < MaxCycles
    /\ IF ~auto_renew_active
       THEN /\ auto_renew_task' = "done"
            /\ live_tasks' = live_tasks - 1
            /\ timer' = None
            /\ UNCHANGED <<auto_renew_active, cycles, cycleVars, remote>>
       ELSE /\ cycles' = cycles + 1
            /\ pay_calls' = 0 /\ reserve_calls' = 0 /\ payment_ret' = "none"
            /\ payment_timed_out' = FALSE
            /\ avail_ret' = "none" /\ reserve_ret' = "none"
            /\ method_calls' = 0 /\ method_ret' = "none"
            /\ order_calls' = 0 /\ order_ret' = "none"
            /\ UNCHANGED live_tasks
            /\ delivered' = "none"
            /\ \E tx \in TxReplies, o \in CancelOutcomes :
                 /\ tx_ret' = tx
                 /\ IF WakeVerdict(tx) = "renew"
                    THEN /\ cancel_calls' = 1
                         /\ cancel_ret' = IF o = "ok" THEN "ok" ELSE "fail"
                         /\ remote' = IF remote = "reserved"
                                         /\ o \in {"ok", "lost"}
                                      THEN "free" ELSE remote
                         /\ notifications' = 0
                         /\ last_notice' = "none"
                         /\ auto_renew_task' = "settle"
                         /\ timer' = Some(now + SettleDelay)
                         /\ UNCHANGED auto_renew_active
                    ELSE /\ cancel_calls' = 0
                         /\ cancel_ret' = "none"
                         /\ auto_renew_active' = FALSE
                         /\ notifications' = 1
                         /\ last_notice' = WakeVerdict(tx)
                         /\ auto_renew_task' = "notify_stop"
                         /\ timer' = None
                         /\ UNCHANGED remote
    /\ UNCHANGED <<authVars, jobVars, handlerVars, delays, user_stopped,
                   last_control, cancel_report>>

\* Lines 1166-1243: after the settle delay the socket is queried again;
\* if it is available, _ejecutar_reserva_silenciosa asks for the payment
\* method and the order id and hands the payment to the executor.
RenewSettled ==
    /\ auto_renew_task = "settle"
    /\ timer # None /\ now >= timer[1]
    /\ timer' = None
    /\ \E avail \in Availabilities, payment \in ApiResults,
          order \in ApiResults :
         /\ avail_ret' = avail
         /\ IF ~SocketAvailable(avail)
            THEN /\ StopJob("unavailable")
                 /\ UNCHANGED <<pay_calls, method_calls, method_ret,
                                order_calls, order_ret>>
            ELSE /\ method_calls' = method_calls + 1
                 /\ method_ret' = IF payment = "data" THEN "ok" ELSE "fail"
                 /\ IF payment = "none"
                    THEN /\ StopJob("failed")
                         /\ UNCHANGED <<pay_calls, order_calls, order_ret>>
                    ELSE /\ order_calls' = order_calls + 1
                         /\ order_ret' = IF order = "data" THEN "ok"
                                         ELSE "fail"
                         /\ IF order = "none"
                            THEN /\ StopJob("failed")
                                 /\ UNCHANGED pay_calls
                            ELSE /\ pay_calls' = pay_calls + 1
                                 /\ auto_renew_task' = "paying"
                                 /\ UNCHANGED <<auto_renew_active,
                                                notifications, last_notice>>
    /\ UNCHANGED <<authVars, cycles, cancel_calls, reserve_calls, cancel_ret,
                   payment_ret, payment_timed_out, tx_ret, reserve_ret,
                   delivered, jobVars, handlerVars,
                   delays, remote, live_tasks, user_stopped,
                   last_control, cancel_report>>

\* A payment failure after which the loop just sleeps again.
PaymentReturnedRetries ==
    /\ auto_renew_task = "paying"
    /\ \E run \in PaymentRuns, result \in ApiResults :
       LET paid == Paid(run) IN
         /\ payment_ret' = IF paid THEN "ok" ELSE "fail"
         /\ payment_timed_out' = TimedOut(run)
         /\ reserve_calls' = IF paid THEN reserve_calls + 1 ELSE reserve_calls
         /\ reserve_ret' = IF ~paid THEN reserve_ret
                           ELSE IF result = "data" THEN "ok" ELSE "fail"
         /\ remote' = IF paid /\ result = "data" THEN "reserved" ELSE remote
         /\ notifications' = notifications + 1
         /\ last_notice' = IF paid /\ result = "data" THEN "renewed" ELSE "failed"
         /\ auto_renew_task' = "notify_ok"
         /\ auto_renew_next_time' = Some(NextRenewalTime)
         /\ UNCHANGED auto_renew_active
    /\ UNCHANGED <<authVars, cycles, cancel_calls, pay_calls, cancel_ret,
                   tx_ret, avail_ret, method_calls, method_ret, order_calls,
                   order_ret, delivered, auto_renew_cupr_id,
                   auto_renew_socket_id,
                   handlerVars, timer, delays, live_tasks, user_stopped,
                   last_control, cancel_report>>

\* Lines 1232-1254 and 1189-1215: the payment returns (an exception counts
\* as a failure); only a paid order is reserved; a renewal sets the next
\* renewal time (line 1191); the outcome is notified.
PaymentReturned ==
    /\ auto_renew_task = "paying"
    /\ \E run \in PaymentRuns, result \in ApiResults :
       LET paid == Paid(run) IN
         /\ payment_ret' = IF paid THEN "ok" ELSE "fail"
         /\ payment_timed_out' = TimedOut(run)
         /\ IF SilentReserves(paid)
            THEN /\ reserve_calls' = reserve_calls + 1
                 /\ reserve_ret' = IF result = "data" THEN "ok" ELSE "fail"
                 /\ remote' = IF result = "data" THEN "reserved" ELSE remote
            ELSE UNCHANGED <<reserve_calls, reserve_ret, remote>>
         /\ IF SilentReserves(paid) /\ result = "data"
            THEN /\ notifications' = notifications + 1
                 /\ last_notice' = "renewed"
                 /\ auto_renew_task' = "notify_ok"
                 /\ auto_renew_next_time' = Some(NextRenewalTime)
                 /\ UNCHANGED auto_renew_active
            ELSE /\ StopJob("failed")
                 /\ UNCHANGED auto_renew_next_time
    /\ UNCHANGED <<authVars, cycles, cancel_calls, pay_calls, cancel_ret,
                   tx_ret, avail_ret, method_calls, method_ret, order_calls,
                   order_ret, delivered, auto_renew_cupr_id,
                   auto_renew_socket_id,
                   handlerVars, timer, delays, live_tasks, user_stopped,
                   last_control, cancel_report>>

\* A loop that a notification which could not be sent brings down.
LoopEndsUndelivered(sent) ==
    IF sent /\ auto_renew_task = "notify_ok" /\ auto_renew_active
    THEN /\ auto_renew_task' = "sleep"
         /\ timer' = Some(now + RenewInterval)
         /\ UNCHANGED live_tasks
    ELSE /\ auto_renew_task' = "done"
         /\ live_tasks' = live_tasks - 1
         /\ timer' = None

\* The loop after "await self._send_notification(...)": the exception of
\* a failed send_message is caught and printed (lines 1258-1266), so the
\* loop goes on the same way whether or not the message was sent: to the
\* next sleep after a renewal, to its end after a stop.
LoopAfterNotice(sent) ==
    IF auto_renew_task = "notify_ok" /\ auto_renew_active
    THEN /\ auto_renew_task' = "sleep"
         /\ timer' = Some(now + RenewInterval)
         /\ UNCHANGED live_tasks
    ELSE /\ auto_renew_task' = "done"
         /\ live_tasks' = live_tasks - 1
         /\ timer' = None

\* _send_notification returns (a failure to send is swallowed, lines
\* 1265-1266); after a renewal the loop tests the flag and sleeps again,
\* after a stop it has broken out.
NotifyDone ==
    /\ auto_renew_task \in {"notify_ok", "notify_stop"}
    /\ \E sent \in BOOLEAN :
         /\ delivered' = IF sent THEN "ok" ELSE "failed"
         /\ LoopAfterNotice(sent)
    /\ UNCHANGED <<authVars, auto_renew_active, cycles, cycleCore, jobVars,
                   handlerVars, delays, remote, user_stopped,
                   last_control, cancel_report>>

\* The clock reaches the end of the loop's pending asyncio.sleep.
TimerFires ==
    /\ auto_renew_task \in {"sleep", "settle"}
    /\ timer # None /\ now < timer[1] /\ timer[1] <= MaxClock
    /\ now' = timer[1]
    /\ UNCHANGED <<authIdle, renewVars>>

\* A second goes by: datetime.now() and the event loop's clock move
\* while callbacks, remote calls and the payment take their time.
Delay ==
    /\ delays < MaxDelays
    /\ now < MaxClock
    /\ now' = now + 1
    /\ delays' = delays + 1
    /\ UNCHANGED <<authIdle, auto_renew_active, auto_renew_task, cycles,
                   cycleVars, jobVars, handlerVars, timer, remote, live_tasks,
                   user_stopped, last_control, cancel_report>>

\* The reservation ends outside the bot: it expires or is cancelled
\* elsewhere, or the vehicle starts to charge (comments at lines 1135,
\* 1139 and 1149).
ReservationEnds ==
    /\ remote = "reserved"
    /\ remote' \in {"free", "charging"}
    /\ UNCHANGED <<authVars, auto_renew_active, auto_renew_task, cycles,
                   cycleVars, jobVars, handlerVars, timer, delays, live_tasks,
                   user_stopped, last_control, cancel_report>>

NextRenew ==
    \/ EjecutarReservaBegin
    \/ EjecutarReservaOrder
    \/ EjecutarReserva
    \/ StopAutoRenew
    \/ CancelarReserva
    \/ CancelarReservaEnds
    \/ LoopStart
    \/ RenewWake
    \/ RenewSettled
    \/ PaymentReturned
    \/ NotifyDone
    \/ TimerFires
    \/ Delay
    \/ ReservationEnds

\* The bot starts with no job and, here, no stored session.
InitRenew == InitBot /\ auth_tokens = None

\* The renewal job of a bot whose session is not touched.
SpecRenew == InitRenew /\ [][NextRenew]_vars

\* The renewal job of a bot started with whatever session its database
\* holds: the interactive reservation and the loop, with the clock moving
\* only to the end of the loop's sleeps.  Nothing here assigns the
\* session: _auto_renew_loop and _ejecutar_reserva_silenciosa do not
\* call ensure_authenticated, refresh_access_token or start_login.
NextCycle ==
    \/ EjecutarReservaBegin
    \/ EjecutarReservaOrder
    \/ EjecutarReserva
    \/ LoopStart
    \/ TimerFires
    \/ RenewWake
    \/ RenewSettled
    \/ PaymentReturned
    \/ NotifyDone

SpecCycle == InitBot /\ [][NextCycle]_vars

\* ------------------------------------------------- is_token_valid alone

\* Any access token, any expiry around the boundary, any clock.
InitValid ==
    /\ tokens_file = TRUE
    /\ auth_tokens = None
    /\ file_data = None
    /\ access_token \in {None, Some(StoredToken)}
    /\ refresh_token = None
    /\ id_token = None
    /\ token_expiry \in {None} \cup
         {Some(e) : e \in (SafetyBuffer - ExpirySpread) ..
                          (SafetyBuffer + MaxNow + ExpirySpread)}
    /\ api_auth = TRUE
    /\ on_auth_failure = FALSE
    /\ InitCommon
    /\ now \in 0 .. MaxNow

\* The script asks is_token_valid() (reservar_cargador.py, test_*.py).
CheckValid ==
    /\ pc["script"] = "idle"
    /\ valid_ret' = is_token_valid
    /\ pc' = [pc EXCEPT !["script"] = "checked"]
    /\ UNCHANGED <<cfgVars, sessVars, storeVars, now, running, callVars,
                   refresh_ret, refreshers, last_write, code_verifier, attemptVars,
                   renewVars>>

SpecValid == InitValid /\ [][CheckValid]_vars

\* ---------------------------------------------------------- properties

\* The Gateway call has returned.
Finished == gw_result # "none"
IsAuthError(a) == a # None /\ a[1] \in AUTH_ERROR_CODES
\* Every HTTP response of the call had status 401.
All401 ==
    /\ http_sent >= 1
    /\ status1 = Some(401)
    /\ http_sent = 2 => status2 = Some(401)

\* C1 as stated: a Gateway call that began with a refresh token and whose
\* every response was 401 has invoked refresh_access_token exactly once
\* and sent the request exactly twice, and failed.
C1_AsStated ==
    (Finished /\ start_refreshable /\ All401)
        => (refresh_calls = 1 /\ http_sent = 2 /\ gw_result = "fail")

\* C1, narrowed: a Gateway call whose every response was 401, whose
\* headers needed no refresh (the token was valid when they were built)
\* and whose recovery refresh succeeded has invoked refresh_access_token
\* exactly once and sent the request exactly twice, and failed.
C1_SingleRetry ==
    (Finished /\ All401 /\ hdr_refreshes = 0 /\ recovery = "ok")
        => (refresh_calls = 1 /\ http_sent = 2 /\ gw_result = "fail")

C1_Witness ==
    Finished /\ All401 /\ hdr_refreshes = 0 /\ recovery = "ok" /\ http_sent = 2

\* C2: one Gateway call sends the request at most twice, and once the
\* retried request has been answered the call does nothing but report the
\* failure and return.
C2_AtMostTwo ==
    /\ http_sent <= 2
    /\ \A c \in BotCallers :
         (http_sent = 2 /\ pc[c] # "idle") => pc[c] = "escalate"

C2_Witness ==
    Finished /\ http_sent = 2 /\ IsAuthError(status2)

\* C3: with the callback registered, a returned Gateway call whose first
\* status was 401/403/500 has invoked the callback once and returned None
\* when the refresh failed, there was no refresh token, or the retry again
\* got 401/403/500; and has returned the JSON without invoking the
\* callback when the retry got 200.
C3_Escalation ==
    (Finished /\ on_auth_failure /\ http_sent >= 1 /\ IsAuthError(status1))
        => /\ (recovery \in {"failed", "no_token"}
                 \/ (http_sent = 2 /\ IsAuthError(status2)))
               => (cb_calls = 1 /\ gw_result = "fail")
           /\ (http_sent = 2 /\ status2 = Some(200))
               => (cb_calls = 0 /\ gw_result = "json")

C3_Witness ==
    /\ Finished /\ on_auth_failure /\ IsAuthError(status1)
    /\ http_sent = 2 /\ IsAuthError(status2) /\ cb_calls = 1

\* C4: the step in which the auth-failure callback runs leaves
\* refresh_token and id_token as they were, sets access_token and
\* token_expiry to None, makes is_token_valid() false, and keeps the
\* session refreshable if it had a refresh token.
C4_Invalidation ==
    [][cb_calls' = cb_calls + 1 =>
          /\ refresh_token' = refresh_token
          /\ id_token' = id_token
          /\ access_token' = None
          /\ token_expiry' = None
          /\ ~is_token_valid'
          /\ refresh_token # None => is_authenticated']_vars

C4_Witness ==
    /\ last_write = "callback" /\ cb_calls = 1
    /\ refresh_token # None /\ access_token = None

\* C5: is_token_valid() returns true exactly when access_token and
\* token_expiry are set and now < token_expiry - 30.
C5_Validity ==
    pc["script"] = "checked" =>
        (valid_ret <=> (/\ access_token # None
                        /\ token_expiry # None
                        /\ now < token_expiry[1] - 30))

\* The check made exactly at expiry - 30 s says no.
C5_Witness ==
    /\ pc["script"] = "checked"
    /\ access_token # None
    /\ token_expiry = Some(now + 30)
    /\ ~valid_ret

\* The step in which refresh_access_token returns.
RefreshReturns(v) == refresh_ret = "none" /\ refresh_ret' = v

\* C6 as stated: a refresh that returns fail leaves access_token,
\* refresh_token, id_token and token_expiry as they were.
C6_AsStated ==
    [][RefreshReturns("fail") => UNCHANGED sessVars]_vars

\* C7 as stated: a refresh that returns success has taken access_token,
\* id_token and token_expiry (= now + expires_in, 360 by default) from
\* the reply, and refresh_token from the reply only when the reply holds
\* a refresh token; otherwise refresh_token is the previous one.
C7_AsStated ==
    [][RefreshReturns("ok") =>
          \E r \in RepliesNow :
             /\ r.kind = "json" /\ r.access.has
             /\ access_token' = r.access.val
             /\ id_token' = r.id.val
             /\ token_expiry' =
                  Some(now + (IF r.expires.has /\ r.expires.val # None
                              THEN r.expires.val[1] ELSE DefaultExpiresIn))
             /\ refresh_token' =
                  IF r.refresh.has /\ r.refresh.val # None
                  THEN r.refresh.val ELSE refresh_token]_vars

\* C8 as stated: while the access token is expired, at most one caller
\* has sent a refresh request since it was last valid.
C8_AsStated ==
    (access_token # None /\ token_expiry # None /\ ~is_token_valid)
        => Cardinality(refreshers) <= 1

\* C9 as stated: whenever no call is running and the session's fields
\* were last assigned by a successful refresh or exchange, the
\* auth_tokens row holds the session.
C9_AsStated ==
    (running = "none" /\ (\A c \in BotCallers : pc[c] = "idle")
       /\ last_write \in {"refresh_ok", "exchange_ok"})
        => auth_tokens = Some(Session)

\* The job's current renewal cycle cancelled the reservation and its
\* payment failed.
PaymentFailedCycle == cancel_ret = "ok" /\ payment_ret = "fail"

\* C10: in a renewal cycle whose cancel succeeded and whose payment
\* failed, the job is off (auto_renew_active false), exactly one
\* notification, the failure one, has been sent, reserve_charger has not
\* been called, and the loop starts no further cycle.
C10_FailedRenewal ==
    /\ [](PaymentFailedCycle =>
            /\ ~auto_renew_active
            /\ notifications = 1 /\ last_notice = "failed"
            /\ reserve_calls = 0
            /\ auto_renew_task \in {"notify_stop", "done", "none"})
    /\ [][PaymentFailedCycle => cycles' = cycles]_vars

C10_Witness ==
    PaymentFailedCycle /\ auto_renew_task = "done" /\ notifications = 1

\* The loop has stopped for good: it is sending its last notification,
\* has finished, or was cancelled.
LoopOver == auto_renew_task \in {"notify_stop", "done", "none"}

\* C11: when the transaction query of a cycle reports a charge in
\* progress, the job is off, the loop is over, no cancel, payment or
\* reserve call has been made in that cycle, exactly one notification,
\* the charging one, has been sent, and from then on no cycle starts and
\* none of those calls is made.
C11_ChargingStops ==
    /\ [](tx_ret = "charging" =>
            /\ ~auto_renew_active
            /\ LoopOver
            /\ cancel_calls = 0 /\ pay_calls = 0 /\ reserve_calls = 0
            /\ notifications = 1 /\ last_notice = "charging")
    /\ [][tx_ret = "charging" =>
            (UNCHANGED <<cycles, cancel_calls, pay_calls, reserve_calls>>)]_vars

C11_Witness ==
    tx_ret = "charging" /\ auto_renew_task = "done" /\ notifications = 1

\* C12: when the transaction query of a cycle reports no reservation in
\* progress, or returns no data, the job is off, the loop is over,
\* exactly one notification, the expiry one, has been sent, and neither
\* cancel_reservation nor a payment or reserve call has been or will be
\* made.
C12_ExpiredStops ==
    /\ [](tx_ret \in {"idle", "none"} =>
            /\ ~auto_renew_active
            /\ LoopOver
            /\ notifications = 1 /\ last_notice = "expired"
            /\ cancel_calls = 0 /\ pay_calls = 0 /\ reserve_calls = 0)
    /\ [][(tx_ret \in {"idle", "none"}) =>
            (UNCHANGED <<cancel_calls, pay_calls, reserve_calls>>)]_vars

C12_Witness ==
    /\ tx_ret \in {"idle", "none"} /\ remote = "free"
    /\ auto_renew_task = "done" /\ last_notice = "expired"

\* C13: when the availability re-query after the cancel and the settle
\* delay does not find the socket AVAILABLE, or returns no data, the job
\* is off, the loop is over, the unavailability notification has been
\* sent, and no payment method, order id, payment or reserve call has
\* been or will be made.
C13_UnavailableStops ==
    /\ [](avail_ret \in {"no", "nodata"} =>
            /\ ~auto_renew_active
            /\ LoopOver
            /\ cancel_calls = 1
            /\ notifications = 1 /\ last_notice = "unavailable"
            /\ method_calls = 0 /\ order_calls = 0
            /\ pay_calls = 0 /\ reserve_calls = 0)
    /\ [][(avail_ret \in {"no", "nodata"}) =>
            (UNCHANGED <<method_calls, order_calls, pay_calls,
                        reserve_calls>>)]_vars

C13_Witness ==
    /\ avail_ret = "nodata" /\ cancel_ret = "ok"
    /\ auto_renew_task = "done" /\ last_notice = "unavailable"

\* The job was stopped by its loop with one notification.
StoppedWithNotice ==
    ~auto_renew_active /\ LoopOver /\ notifications = 1

\* C14 as stated: in a renewal cycle, a failed remote cancel, availability
\* re-query, payment method, order id, payment or reservation leaves the
\* job stopped with the failure notification sent, and no step that
\* comes after the failed one has been executed.
C14_AsStated ==
    /\ cancel_ret = "fail" =>
         /\ StoppedWithNotice
         /\ avail_ret = "none" /\ method_calls = 0 /\ order_calls = 0
         /\ pay_calls = 0 /\ reserve_calls = 0
    /\ avail_ret \in {"no", "nodata"} =>
         /\ StoppedWithNotice
         /\ method_calls = 0 /\ order_calls = 0
         /\ pay_calls = 0 /\ reserve_calls = 0
    /\ method_ret = "fail" =>
         /\ StoppedWithNotice /\ last_notice = "failed"
         /\ order_calls = 0 /\ pay_calls = 0 /\ reserve_calls = 0
    /\ order_ret = "fail" =>
         /\ StoppedWithNotice /\ last_notice = "failed"
         /\ pay_calls = 0 /\ reserve_calls = 0
    /\ payment_ret = "fail" =>
         /\ StoppedWithNotice /\ last_notice = "failed"
         /\ reserve_calls = 0
    /\ reserve_ret = "fail" =>
         /\ StoppedWithNotice /\ last_notice = "failed"

\* C15: within one renewal cycle the payment is handed to the executor at
\* most once and only with an order id, reserve_charger is called at most
\* once and only after that payment returned success, and the order id
\* is requested at most once and only with a payment method obtained.
C15_PaidSequence ==
    /\ method_calls <= 1 /\ order_calls <= 1
    /\ pay_calls <= 1 /\ reserve_calls <= 1
    /\ order_calls = 1 => (method_calls = 1 /\ method_ret = "ok")
    /\ pay_calls = 1 => (order_calls = 1 /\ order_ret = "ok")
    /\ reserve_calls = 1 => (pay_calls = 1 /\ payment_ret = "ok")
    /\ payment_ret # "none" => pay_calls = 1
    /\ reserve_ret # "none" => reserve_calls = 1

C15_Witness ==
    /\ cycles = 2
    /\ reserve_calls = 1 /\ reserve_ret = "ok" /\ payment_ret = "ok"
    /\ pay_calls = 1 /\ order_calls = 1 /\ method_calls = 1

\* The step that creates a job, the step in which a cycle succeeds, and
\* the step that starts a cycle.
JobCreated == handler = "paying" /\ reserva_ret' = "ok"
CycleSucceeded == auto_renew_task = "paying" /\ last_notice' = "renewed"
CycleStarts == cycles' = cycles + 1

ReservaFailed ==
    /\ reserva_ret = "running"
    /\ reserva_ret' \in {"no_method", "no_order", "payment_failed",
                         "reserve_failed"}

\* C17: auto_renew_active turns true only in the step in which an
\* interactive reservation's reserve_charger succeeded; that step records
\* the requested cupr and socket ids, sets auto_renew_next_time to now
\* plus 14 minutes and creates the loop task; a step in which an
\* interactive reservation fails leaves auto_renew_active, the ids, the
\* next renewal time and the task as they were.
C17_Activation ==
    [][/\ (auto_renew_active' /\ ~auto_renew_active) => JobCreated
       /\ JobCreated =>
            /\ auto_renew_active'
            /\ auto_renew_cupr_id' = Some(requested[1][1])
            /\ auto_renew_socket_id' = Some(requested[1][2])
            /\ auto_renew_next_time' = Some(now + RenewInterval)
            /\ auto_renew_task' = "created"
       /\ ReservaFailed =>
            (UNCHANGED <<auto_renew_active, jobVars, auto_renew_task,
                         live_tasks>>)]_vars

C17_Witness ==
    /\ reserva_ret = "ok" /\ auto_renew_task = "created"
    /\ auto_renew_active /\ now > 0
    /\ auto_renew_cupr_id = Some(2) /\ auto_renew_socket_id = Some(2)
    /\ auto_renew_next_time = Some(now + RenewInterval)

\* C18: once _stop_auto_renew or _cancelar_reserva has turned the job
\* off, wherever the loop stood, the job stays off with no pending sleep,
\* and until a new job is created no step starts a renewal cycle or
\* adds a cancel, payment or reserve call of the loop.
C18_StopIsFinal ==
    /\ [](user_stopped =>
            ~auto_renew_active /\ ~TaskAlive /\ timer = None)
    /\ [][user_stopped =>
            /\ cycles' = cycles
            /\ cancel_calls' <= cancel_calls
            /\ pay_calls' <= pay_calls
            /\ reserve_calls' <= reserve_calls]_vars

\* The stop arrived while the cycle's payment was with the executor.
C18_Witness ==
    /\ user_stopped /\ auto_renew_task = "none"
    /\ cancel_calls = 1 /\ pay_calls = 1 /\ payment_ret = "none"
    /\ reserve_calls = 0

\* The loop is inside a cycle that found a reservation in progress and
\* has not yet settled its outcome.
CycleInFlight ==
    auto_renew_task \in {"settle", "paying"} /\ tx_ret = "reservation"

\* _stop_auto_renew reaches a loop task that can still run.
StopArrives ==
    TaskAlive /\ auto_renew_task' = "none" /\ last_control' = "stop"

\* C19 as stated: when _stop_auto_renew stops the loop, a reservation
\* that is active at that moment, or that was active when the current
\* cycle started, is active once the stop is done.
C19_AsStated ==
    [][(StopArrives /\ (remote = "reserved" \/ CycleInFlight))
          => remote' = "reserved"]_vars

\* C20: the only loop task that can run is the one self.auto_renew_task
\* refers to, so at most one is alive, and a renewal cycle starts only
\* from that task's sleep, never while a cycle is in flight; this holds
\* also after an interactive reservation has created a new job while the
\* previous job's cycle was suspended at an await.
C20_SingleLoop ==
    /\ [](live_tasks = (IF TaskAlive THEN 1 ELSE 0))
    /\ [][CycleStarts =>
            (auto_renew_task = "sleep" /\ live_tasks = 1)]_vars

\* The new job replaced one that was suspended inside a cycle, and has
\* started a cycle of its own.
C20_Witness ==
    /\ last_control = "replace"
    /\ auto_renew_task = "settle" /\ cycles = 2
    /\ live_tasks = 1

\* C21 as stated: when a renewal cycle starts, that is, when it makes its
\* first remote call, the session is valid, as it is after a successful
\* ensure_authenticated.
C21_AsStated ==
    [][CycleStarts => is_token_valid]_vars

\* C22 as stated, the part on the payment: a payment of the cycle whose
\* 3DS wait timed out has been reported as a failure, and the job has
\* been stopped with the failure notification.
C22_AsStated ==
    payment_timed_out =>
        /\ payment_ret = "fail"
        /\ StoppedWithNotice /\ last_notice = "failed"

\* Where a Gateway call stands around get_access_token: before it, waiting
\* for its refresh, and with the headers built.
BeforeToken == {"idle", "hdr2"}
AwaitingToken == {"hdr1_wait", "hdr2_wait"}
WithToken == {"req1", "req2"}

InLoginFlow ==
    {"login_wait", "login_browser", "login_ret_fail", "login_ret_mfa",
     "mfa_wait", "mfa_ret_otp", "mfa_ret_none", "submit_wait"}

\* C24, the retry half: an ensure_authenticated call has called
\* start_login at most once and submit_mfa_code at most once, and the
\* steps that end it with (False, reason) are taken from a failed
\* start_login or submit_mfa_code or from a missing MFA code.
C24_NoRetry ==
    /\ [](\A c \in BotCallers : login_calls[c] <= 1 /\ mfa_submits[c] <= 1)
    /\ [][\A c \in BotCallers :
            (pc[c] \in InLoginFlow /\ pc'[c] = "idle") =>
               pc[c] \in {"login_ret_fail", "mfa_ret_none"}]_vars

C25_AsStated ==
    \A c \in BotCallers :
        exchange_verifier[c] # "none" => exchange_verifier[c] = c

\* The step is a call of the auth-failure callback.
CallbackStep == cb_calls' = cb_calls + 1 /\ last_write' = "callback"

C27_AsStated == cancel_report # "fault"

\* _send_notification returns to the loop.
NoticeReturns == delivered = "none" /\ delivered' # "none"

\* C28: when _send_notification returns, sent or not, the loop goes on:
\* after the notice of a renewal the job stays active and the task sleeps
\* until the next renewal, after the notice of a stop the task ends with
\* the job inactive; the delivery changes neither the job's fields nor
\* the cycle's record, and the task does not end on a failed delivery.
C28_BestEffort ==
    [][NoticeReturns =>
          /\ auto_renew_task \in {"notify_ok", "notify_stop"}
          /\ auto_renew_task' =
               IF auto_renew_task = "notify_ok" /\ auto_renew_active
               THEN "sleep" ELSE "done"
          /\ auto_renew_task' = "sleep" =>
               timer' = Some(now + RenewInterval)
          /\ UNCHANGED <<auto_renew_active, cycles, cycleCore, jobVars,
                         remote>>]_vars

\* The notice of a renewal could not be sent and the job goes on.
C28_Witness ==
    /\ delivered = "failed" /\ last_notice = "renewed"
    /\ auto_renew_active /\ auto_renew_task = "sleep"

\* The bot's configuration, its changes and its restarts.
SpecConfig == InitBot /\ [][NextConfig]_vars

\* A text that is digits, a dot, digits, a dot, digits.
IsXYZ(s) ==
    \E i, j \in 1..Len(s) :
       /\ 1 < i /\ i + 1 < j /\ j < Len(s)
       /\ s[i] = "." /\ s[j] = "."
       /\ \A k \in (1..Len(s)) \ {i, j} : IsDigit(s[k])

\* C29: while the bot runs the saved check_interval, if there is one, is
\* the text of the interval in memory and reads back as it; the saved
\* app_version, if there is one, is the version in memory, after a
\* restart too; and a version text that, the blanks around it aside, is
\* not of the form X.Y.Z changes neither the saved version nor the one in
\* memory.
C29_RoundTrip ==
    /\ [](/\ (phase = "running" /\ configuracion.check_interval # None) =>
               /\ configuracion.check_interval[1] = str(check_interval)
               /\ int(configuracion.check_interval[1]) = check_interval
          /\ configuracion.app_version # None =>
               configuracion.app_version[1] = app_version)
    /\ [][(version_input' # version_input /\ version_input' # None
             /\ ~IsXYZ(Strip(version_input'[1])))
           => UNCHANGED <<configuracion, app_version>>]_vars

\* The bot runs again after a restart that followed a change of the
\* interval to 300 s and a change of the version.
C29_Witness ==
    /\ phase = "running" /\ version_reply = "none"
    /\ configuracion.app_version # None /\ app_version # DefaultVersion
    /\ configuracion.check_interval = Some(<<"3", "0", "0">>)
    /\ check_interval = 300

\* The reader of the MFA mail and its inbox.
SpecMail == InitBot /\ [][NextMail]_vars

IsOtherFailure(a) == a = None \/ (a # Some(200) /\ ~IsAuthError(a))
\* The reply the call ended on.
LastStatus == IF http_sent = 2 THEN status2 ELSE status1

\* C34 as stated: a returned Gateway call whose last request (the first or
\* the retried one) failed for a non-authentication reason has called no
\* refresh and has not invoked the auth-failure callback.
C34_AsStated ==
    (Finished /\ http_sent >= 1 /\ IsOtherFailure(LastStatus))
        => (gw_result = "fail" /\ refresh_calls = 0 /\ cb_calls = 0)

\* C34, narrowed: the request whose reply is a non-authentication failure
\* returns failure in that very step, with no refresh, no callback and the
\* session's tokens untouched; over the whole call the callback was never
\* invoked and the only refreshes are those made before the failing
\* request: by get_access_token for an expired token, and the recovery
\* that precedes a retry. A call whose first request fails this way with a
\* token that was valid has called no refresh at all.
C34_FailingRequest ==
    /\ [][(http_sent' = http_sent + 1 /\ IsOtherFailure(LastStatus'))
            => /\ gw_result' = "fail"
               /\ refresh_calls' = refresh_calls
               /\ cb_calls' = cb_calls
               /\ UNCHANGED sessVars]_vars
    /\ [](Finished /\ http_sent >= 1 /\ IsOtherFailure(LastStatus)
            => /\ gw_result = "fail" /\ cb_calls = 0
               /\ refresh_calls
                    = hdr_refreshes + (IF http_sent = 2 THEN 1 ELSE 0)
               /\ (http_sent = 1 /\ hdr_refreshes = 0) => refresh_calls = 0)

\* A retry that timed out after a successful recovery.
C34_Witness ==
    /\ Finished /\ gw_result = "fail" /\ cb_calls = 0
    /\ http_sent = 2 /\ status2 = None /\ recovery = "ok"
    /\ refresh_calls = 1

\* ------------------------------------------------------------------ C39
\* C39: whatever the outcome of a Gateway call, the auth-failure callback
\* has been invoked at most once in it, each step invokes it at most once,
\* and a call that returned the JSON result has not invoked it.
C39_AtMostOnce ==
    /\ [](cb_calls <= 1 /\ (gw_result = "json" => cb_calls = 0))
    /\ [][cb_calls' # cb_calls
            => (cb_calls' \in {0, cb_calls + 1} /\ gw_result' # "json")]_vars

\* The recovery refresh failed and the callback ran, once.
C39_Witness ==
    Finished /\ recovery = "failed" /\ cb_calls = 1 /\ gw_result = "fail"

\* ------------------------------------------------------------------ C38
\* C38 as stated: a step in which a login's code exchange ends in failure
\* (_exchange_code_for_tokens returns None) leaves access_token,
\* refresh_token, id_token and token_expiry all as they were.
C38_AsStated ==
    [][\A c \in BotCallers :
         (pc[c] # "login_ret_fail" /\ pc'[c] = "login_ret_fail")
            => UNCHANGED sessVars]_vars

\* One caller's ensure_authenticated calls, from every stored session.
NextEnsure ==
    \/ Tick
    \/ \E c \in {"poller"} :
         \/ EnsureStart(c)
         \/ EnsureRefreshed(c)
         \/ LoginBegin(c)
         \/ LoginBrowser(c)
         \/ EnsureAfterLogin(c)
         \/ MfaCode(c)
         \/ EnsureAfterMfa(c)
         \/ SubmitMfa(c)
         \/ EnsureLoggedIn(c)

SpecEnsure == InitBot /\ [][NextEnsure]_vars

\* ------------------------------------------------------------------ C35
\* C35: an ensure_authenticated call made with a valid token returns at
\* once (the caller stays idle, and while no other call moves no refresh
\* is sent and the session and the stores stay as they were); with an invalid token and a refresh token its first step sends the
\* refresh, and a refresh that worked returns success with the tokens
\* saved; the full login is entered only straight from the start when
\* there is no refresh token, or from a refresh that failed.
C35_Order ==
    [][\A c \in BotCallers :
         /\ (pc[c] = "idle" /\ is_token_valid)
               => /\ pc'[c] = "idle"
                  /\ pc' = pc => (/\ refresh_ret' = refresh_ret
                                  /\ refreshers' = refreshers
                                  /\ UNCHANGED <<sessVars, storeVars>>)
         /\ (pc[c] = "idle" /\ pc'[c] # "idle" /\ refresh_token # None)
               => (pc'[c] = "ens_wait" /\ c \in refreshers'
                   /\ login_calls'[c] = 0)
         /\ (pc[c] = "ens_wait" /\ pc'[c] # "ens_wait" /\ RefreshOk)
               => (pc'[c] = "idle" /\ login_calls'[c] = 0
                   /\ auth_tokens' = Some(Session'))
         /\ (pc[c] # "login_wait" /\ pc'[c] = "login_wait")
               => \/ pc[c] = "idle" /\ ~is_token_valid /\ refresh_token = None
                  \/ pc[c] = "ens_wait" /\ ~RefreshOk]_vars

\* A call that found an expired token and a refresh token is awaiting the
\* refresh, the login not started.
C35_Witness ==
    \E c \in BotCallers :
        /\ pc[c] = "ens_wait" /\ running = c
        /\ ~is_token_valid /\ refresh_token # None /\ login_calls[c] = 0

C33_AsStated == ~(handler = "paying" /\ auto_renew_task = "paying")

\* The charger checks of the bot.
SpecCheck == InitRenew /\ [][NextCheck]_vars

\* ------------------------------------------------------------------ C31
\* C31 as stated: a forced check asked for while the automatic scans are
\* paused goes on to query the chargers.
C31_AsStated ==
    [][(checker["manual"] = "begun" /\ scanning_paused
          /\ checker'["manual"] # "begun")
         => checker'["manual"] = "auth"]_vars

NextVersion ==
    \/ Tick
    \/ RunStart
    \/ VerVersion
    \/ \E texto \in VersionInputs : SetNewVersion(texto)
    \/ \E c \in {"poller"} :
         \/ EnsureStart(c)
         \/ EnsureRefreshed(c)
         \/ LoginBegin(c)
         \/ LoginBrowser(c)
         \/ EnsureAfterLogin(c)
         \/ MfaCode(c)
         \/ EnsureAfterMfa(c)
         \/ SubmitMfa(c)
         \/ EnsureLoggedIn(c)

SpecVersion == InitRenew /\ [][NextVersion]_vars

\* ------------------------------------------------------------------ C37
\* C37 as stated: once a version is in the store (the user has set it, or
\* it was loaded at start), the versionApp header of the API client in
\* use is 'ANDROID-' followed by app_version.
C37_AsStated ==
    get_config("app_version") # None
        => versionApp = <<"A", "N", "D", "R", "O", "I", "D", "-">> \o app_version

SpecPkce == InitRenew /\ [][GeneratePkce]_vars

\* ------------------------------------------------------------------ C32
\* C32: after _generate_pkce the challenge has no "=" in it, decoding it
\* (padding restored) gives back the SHA-256 digest of the verifier's
\* bytes, it is the URL-safe Base64 text of that digest less the padding,
\* and the verifier has at least 43 characters.
C32_Pkce ==
    pkce_verifier # None =>
        LET digest == sha256(encode(pkce_verifier[1]))
            challenge == code_challenge[1]
        IN /\ \A i \in 1..Len(challenge) : challenge[i] # "="
           /\ urlsafe_b64decode(Padded(challenge)) = digest
           /\ challenge \o <<"=">> = urlsafe_b64encode(digest)
           /\ Len(pkce_verifier[1]) >= 43

\* A pair was generated: 43 characters each.
C32_Witness ==
    /\ pkce_verifier # None /\ code_challenge # None
    /\ Len(pkce_verifier[1]) = 43 /\ Len(code_challenge[1]) = 43

====
